---------------------------- MODULE Spec2Model ----------------------------
(***************************************************************************)
(* A state-machine model of nanolog-rs:                                    *)
(*   - the variable-size SPSC block ring (src/src/spsc_var_queue_opt.rs)   *)
(*     driven by LoggerHandle::publish_args and the consumer loop run      *)
(*     (src/src/run_log2.rs);                                              *)
(*   - the TSC clock parameter block and its sequence lock                 *)
(*     (src/src/tscns.rs);                                                 *)
(*   - the console sink with its line rendering (src/src/console_sink.rs,  *)
(*     format.rs, my_bytes_mut.rs, log.rs) inside the consumer loop;       *)
(*   - the argument images of a call site (src/src/args2.rs);              *)
(*   - the registration of producer threads with the logger thread         *)
(*     (src/src/main.rs), the fixed-slot SPSC ring (src/src/spsc.rs,       *)
(*     src/src/run_log.rs) and threads sharing one LoggerHandle            *)
(*     (src/src/run_log2.rs).                                              *)
(* Each thread is a program counter plus its locals; one action is one     *)
(* step between two accesses to memory another thread can touch.           *)
(***************************************************************************)
EXTENDS Integers, Sequences, FiniteSets, TLC

(***************************************************************************)
(* Bounds of the model.                                                    *)
(***************************************************************************)
\* log2 of the ring's block count (the ring is generic in BLK_CNT).
LogBlkCnt == 2
\* publish_args calls made by the producer thread.
MaxMsgs == 8
\* calibrate() calls made by the calibration thread.
MaxCalibrations == 2
\* tsc2ns() calls made by the reading thread.
MaxReads == 2
\* steps of the clocks.
MaxTicks == 3
\* the clocks when init is called.
StartTsc == 40
StartNs == 100
\* init(init_calibrate_ns, calibrate_interval_ns), in units of 1000 ns.
InitCalibrate == 4
CalibrateInterval == 9
\* messages the consumer hands to the console sink.
MaxLines == 2
\* ConsoleBatchSink.flush_bytes and flush_interval_cycles, scaled down.
FlushBytes == 100
FlushInterval == 2
\* cycles between a message's stamp and its rendering.
MaxLag == 2
\* the idle passes of run before it starts calling on_idle, scaled down.
IdleLoops == 3
\* length of the longest formatted message body.
MaxBody == 455
\* producer threads that log through a clone of the LoggerHandle
MaxThreads == 3
\* the capacity asked of ring_buffer
RingCapacity == 2
\* calls of push or push_write followed
MaxPush == 6
\* threads that share one LoggerHandle, and the publish_args calls of each
MaxCallers == 2
MaxCalls == 2
\* calls of refresh_dt on one TimeCache
MaxRefresh == 3
\* the threads that log through the merging consumer, and the log entries
\* they stamp
MaxLoggers == 2
MaxStamp == 4
\* messages the consumer pops from a ring that threads share
MaxPops == 1

(***************************************************************************)
(* Program constants.                                                      *)
(***************************************************************************)
BLOCK_SIZE == 64
MSG_HEADER_SIZE == 24
\* the literal 1000 (ns) of save_param, one unit of time
CalibrateGuard == 1
\* i64::MAX, where an f64 too large for i64 saturates
BigTsc == 1000000

\* advances of the cycle counter and of the system clock in one step of
\* time; the system clock can be stepped back
ClockSteps == {<<8, 4>>, <<20, 10>>, <<8, -3>>}

Pow2(n) == 2 ^ n

\* SpscVarQueueOpt<const BLK_CNT: usize>; new() asserts it is a power of two.
BLK_CNT == Pow2(LogBlkCnt)

\* Width in bits of the three ring indices.  The code uses AtomicU32; the
\* model keeps the wrapping and the signed comparison but at a width four
\* times the ring, so that index wrap-around is reached within MaxMsgs.
IdxBits == LogBlkCnt + 2
IdxMod == Pow2(IdxBits)
IdxHalf == Pow2(IdxBits - 1)

wrapping_add(a, b) == (a + b) % IdxMod
wrapping_sub(a, b) == (a - b + IdxMod) % IdxMod
\* `x as i32` of an index.
as_signed(x) == IF x >= IdxHalf THEN x - IdxMod ELSE x

\* The consumer's history (delivered, mono.read) is followed up to what
\* MaxMsgs messages can occupy, pads included.
MaxBlocks == MaxMsgs * 2 * BLK_CNT

is_pow2(x) == \E k \in 0..x : Pow2(k) = x
div_ceil(a, b) == (a + b - 1) \div b
mask == BLK_CNT - 1
\* r & mask, for mask = 2^k - 1
and_mask(x) == x % (mask + 1)

(***************************************************************************)
(* Call sites: publish_args::<A>(level, func, args) is monomorphised per   *)
(* call site, which fixes size_of::<A>(), the level and the decoder.       *)
(***************************************************************************)
Sites ==
  { [len |-> 40,  level |-> 2, func |-> 102],
    [len |-> 44,  level |-> 3, func |-> 103],
    [len |-> 104, level |-> 4, func |-> 104] }

\* The word of the argument image that lands on a continuation block's
\* header bytes (the payload is contiguous, so it overlays them).  Messages
\* are told apart by their tsc stamp.
ArgWord(tsc) == IF tsc % 2 = 0 THEN 0 ELSE 8 + tsc

zero_block == [size |-> 0, level |-> 0, tsc |-> 0, func |-> 0, data |-> <<0, 0>>]

VARIABLES
  \* ---- SpscVarQueueOpt
  blk,             \* [Block; BLK_CNT]
  writing_idx,     \* producer reservation cursor
  written_idx,     \* producer publish cursor
  read_idx,        \* consumer cursor
  read_idx_cache,  \* producer's cache of read_idx
  \* ---- producer thread inside publish_args
  ppc,             \* position of the producer
  p,               \* locals of publish_args / try_alloc
  last_ret,        \* return value of the last publish_args call
  now_tsc,         \* the cycle counter
  \* ---- consumer thread inside run
  cpc,             \* position of the consumer
  c,               \* locals of run / front
  \* ---- history
  nPub,            \* publish_args calls started
  alloc,           \* the last decision of try_alloc
  committed,       \* tsc stamps of the messages whose commit completed
  pending,         \* committed messages not yet popped, as stored
  delivered,       \* tsc stamps of the messages handed to on_record
  last_read,       \* the message last handed to on_record, as read
  nPopped,         \* pop calls completed
  nDropped,        \* publish_args calls refused
  mono,            \* unwrapped values of the indices and the cache
  oob              \* a store of the producer fell outside the block array

qvars == <<blk, writing_idx, written_idx, read_idx, read_idx_cache, ppc, p,
           last_ret, now_tsc, cpc, c, nPub, alloc, committed, pending,
           delivered, last_read, nPopped, nDropped, mono, oob>>


\* ---- the clock parameter block and its threads
VARIABLES
  PARAM_SEQ, NS_PER_TSC, BASE_TSC, BASE_NS, CALIBATE_INTERVAL_NS, BASE_NS_ERR,
  NEXT_CALIBRATE_TSC,
  tsc_now,         \* what read_tsc() returns
  sys_now,         \* what read_sys_nanos() returns
  wpc,             \* position of the thread that runs init, then calibrate
  sp,              \* arguments and locals of save_param
  rpc,             \* position of the thread inside tsc2ns
  rd,              \* argument and locals of tsc2ns
  tsc2ns_ret,      \* the parameters the last completed tsc2ns used, its result
  commits,         \* the tuples save_param calls were handed, and the initial one
  nTicks, nCal, nReads

cvars == <<PARAM_SEQ, NS_PER_TSC, BASE_TSC, BASE_NS, CALIBATE_INTERVAL_NS,
           BASE_NS_ERR, NEXT_CALIBRATE_TSC, tsc_now, sys_now, wpc, sp, rpc, rd,
           tsc2ns_ret, commits, nTicks, nCal, nReads>>

\* ---- the console sink and the consumer loop around it
VARIABLES
  tid,             \* run's tid, handed to every on_record
  batch,           \* ConsoleBatchSink.batch, the bytes as a string
  scratch,         \* ConsoleBatchSink.scratch.result()
  flush_age,       \* read_tsc() - last_flush_cycles, saturating at MaxAge
  stdout,          \* the bytes written to the standard output so far
  no_data,         \* run's local no_data
  num_loop,        \* run's local num_loop, saturating at IdleLoops
  spc,             \* position of the thread inside run
  rendered,        \* the lines appended to batch so far, concatenated
  io_errors,       \* failed write_all or flush calls so far
  last_call,       \* what the last call of on_record or on_idle saw and did
  nLines           \* messages handed to the sink so far

svars == <<tid, batch, scratch, flush_age, stdout, no_data, num_loop, spc,
           rendered, io_errors, last_call, nLines>>

\* ---- a call site's arguments on their way through args2 and the decoder
VARIABLES
  a_in,            \* the two arguments of args2(a1, a2)
  a_bytes,         \* the bytes of the Args2 value, as the payload carries them
  a_out,           \* what decode_fmt_args2 read from the bytes
  apc              \* "input", "encoded" or "decoded"

avars == <<a_in, a_bytes, a_out, apc>>

VARIABLES
  NEXT_TID,        \* static NEXT_TID: AtomicU32
  tls,             \* TLS_PROD of every thread, and its position in get_mut
  senders,         \* the threads whose clone of LoggerHandle (reg_tx) is alive
  reg_chan,        \* the RegMsg in the registration channel, as their tid
  qs,              \* LoggerThread's qs, as the tid of each QState
  ltpc,            \* position of the logger thread inside run
  ordinals         \* the values fetch_add returned, in the order of the calls

rvars == <<NEXT_TID, tls, senders, reg_chan, qs, ltpc, ordinals>>

VARIABLES
  shared,          \* Shared: tail and head
  buffer,          \* the slots behind Shared.buffer
  producer,        \* Producer: local_tail, cached_head; the call in progress
  consumer,        \* Consumer: local_head, cached_tail; the call in progress
  fhist            \* history: values pushed and popped, refusals seen

fvars == <<shared, buffer, producer, consumer, fhist>>

VARIABLES
  callers          \* the threads that share a &LoggerHandle, inside publish_args

VARIABLES
  time_cache,      \* TimeCache: sec and the first TIME_LEN bytes of buf
  dt,              \* refresh_dt calls: curr_sec, the bytes left in buff, history
  prods,           \* the producer threads: the entries of each thread's queue in
                   \* order, the entry built and not yet pushed, rdtsc, history
  lt               \* LoggerThread beside qs: head of each QState, heap, empty,
                   \* empty_cursor, locals of run, the entries written to out

yvars == <<time_cache, dt, prods, lt>>

\* the state outside the ring, the clock, the sink and the argument images
xvars == <<rvars, fvars, callers, yvars>>

vars == <<qvars, cvars, svars, avars, xvars>>

no_site == [len |-> 0, level |-> 0, func |-> 0]
no_locals == [site |-> no_site, total |-> 0, blk_sz |-> 0, write_idx |-> 0,
              pad |-> 0, hdr |-> 0, tsc |-> 0, rewound |-> FALSE, entry |-> 0]
no_front == [r |-> 0, w |-> 0, hdr |-> 0, sz |-> 0, skipped |-> FALSE]
no_alloc == [len |-> 0, pos |-> 0, writing |-> 0, consulted |-> 0,
             hit |-> FALSE, some |-> FALSE]
no_msg == [size |-> 0, level |-> 0, tsc |-> 0, func |-> 0, payload |-> <<>>]

QInit ==
  /\ blk = [i \in 0..(BLK_CNT - 1) |-> zero_block]
  /\ writing_idx = 0
  /\ written_idx = 0
  /\ read_idx = 0
  /\ read_idx_cache = 0
  /\ ppc = "idle"
  /\ p = no_locals
  /\ last_ret = "none"
  /\ now_tsc = 1
  /\ cpc = "idle"
  /\ c = no_front
  /\ nPub = 0
  /\ alloc = no_alloc
  /\ committed = <<>>
  /\ pending = <<>>
  /\ delivered = <<>>
  /\ last_read = no_msg
  /\ nPopped = 0
  /\ nDropped = 0
  /\ mono = [writing |-> 0, written |-> 0, read |-> 0, cache |-> 0]
  /\ oob = FALSE

(***************************************************************************)
(* Producer::try_alloc (93-143).                                           *)
(***************************************************************************)
total_bytes_of(payload_len) == payload_len + MSG_HEADER_SIZE
blk_sz_of(payload_len) == div_ceil(total_bytes_of(payload_len), BLOCK_SIZE)
\* blocks remaining to ring end
pad_of(write_idx) == BLK_CNT - and_mask(write_idx)
\* a rewind test that is off by one block: a message one block longer than
\* the room before the ring end is still placed there
rewind_off_by_one(payload_len, write_idx) ==
  blk_sz_of(payload_len) > pad_of(write_idx) + 1
rewind_of(payload_len, write_idx) == blk_sz_of(payload_len) > pad_of(write_idx)
needed_of(payload_len, write_idx) ==
  blk_sz_of(payload_len)
    + (IF rewind_of(payload_len, write_idx) THEN pad_of(write_idx) ELSE 0)
min_read_idx_of(payload_len, write_idx) ==
  wrapping_sub(wrapping_add(write_idx, needed_of(payload_len, write_idx)), BLK_CNT)

\* the comparison of lines 110 and 113: (idx as i32) < (min_read_idx as i32)
too_low(idx, min_read_idx) == as_signed(idx) < as_signed(min_read_idx)

\* a reservation made before the free-space decision: writing_idx moves
\* even when try_alloc goes on to return None
new_write_unchecked(write_idx, blk_sz, returned) ==
  wrapping_add(write_idx, blk_sz)
\* writing_idx after the decision: the store of line 139 is behind the
\* `return None` of line 114 (returned), so a refusal leaves it alone
new_write(write_idx, blk_sz, returned) ==
  IF returned THEN write_idx ELSE wrapping_add(write_idx, blk_sz)

\* publish_args entry (run_log2.rs 15-21) and try_alloc: the free-space
\* decision (96-116) and, when no rewind is needed, the reservation (130-142).
try_alloc_check(site) ==
  LET write_idx == writing_idx
      blk_sz == blk_sz_of(site.len)
      rewind == rewind_of(site.len, write_idx)
      min_read_idx == min_read_idx_of(site.len, write_idx)
      miss == too_low(read_idx_cache, min_read_idx)
      fresh == read_idx
      full == miss /\ too_low(fresh, min_read_idx)
      locals == [no_locals EXCEPT !.site = site,
                   !.total = total_bytes_of(site.len), !.blk_sz = blk_sz,
                   !.write_idx = write_idx, !.pad = pad_of(write_idx),
                   !.rewound = rewind, !.entry = and_mask(write_idx)]
  IN /\ ppc = "idle"
     /\ nPub < MaxMsgs
     /\ nPub' = nPub + 1
     /\ read_idx_cache' = IF miss THEN fresh ELSE read_idx_cache
     /\ mono' = [mono EXCEPT
                   !.cache = IF miss THEN mono.read ELSE @,
                   !.writing = IF full \/ rewind THEN @ ELSE @ + blk_sz]
     /\ alloc' = [len |-> site.len, pos |-> and_mask(write_idx),
                  writing |-> mono.writing,
                  consulted |-> IF miss THEN mono.read ELSE mono.cache,
                  hit |-> ~miss, some |-> ~full]
     /\ IF full
          THEN /\ ppc' = "idle"
               /\ p' = no_locals
               /\ last_ret' = "false"
               /\ nDropped' = nDropped + 1
               /\ writing_idx' = new_write(write_idx, blk_sz, TRUE)
          ELSE IF rewind
            THEN /\ ppc' = "rewind"
                 /\ p' = locals
                 /\ UNCHANGED <<writing_idx, last_ret, nDropped>>
            ELSE /\ ppc' = "fill_header"
                 /\ writing_idx' = new_write(write_idx, blk_sz, FALSE)
                 /\ p' = [locals EXCEPT !.hdr = and_mask(write_idx)]
                 /\ UNCHANGED <<last_ret, nDropped>>
     /\ UNCHANGED <<xvars, cvars, svars, avars, blk, written_idx, read_idx, now_tsc, cpc, c, committed,
                    pending, delivered, last_read, nPopped, oob>>

\* try_alloc, rewind branch (120-128): marker at the current block, skip to
\* the ring start; then the reservation (130-142).
try_alloc_rewind ==
  LET cur == and_mask(p.write_idx)
      write_idx == wrapping_add(p.write_idx, p.pad)
  IN /\ ppc = "rewind"
     /\ blk' = [blk EXCEPT ![cur].size = 0]
     /\ writing_idx' = wrapping_add(write_idx, p.blk_sz)
     /\ p' = [p EXCEPT !.write_idx = write_idx, !.hdr = and_mask(write_idx)]
     /\ mono' = [mono EXCEPT !.writing = @ + p.pad + p.blk_sz]
     /\ ppc' = "fill_header"
     /\ UNCHANGED <<xvars, cvars, svars, avars, written_idx, read_idx, read_idx_cache, last_ret, now_tsc,
                    cpc, c, nPub, alloc, committed, pending, delivered,
                    last_read, nPopped, nDropped, oob>>

(***************************************************************************)
(* publish_args, filling the reserved blocks (run_log2.rs 23-28).          *)
(***************************************************************************)
\* hdr.level, hdr.tsc = read_tsc(), hdr.log_func
fill_header ==
  /\ ppc = "fill_header"
  /\ blk' = [blk EXCEPT ![p.hdr].level = p.site.level,
                        ![p.hdr].tsc = now_tsc,
                        ![p.hdr].func = p.site.func]
  /\ p' = [p EXCEPT !.tsc = now_tsc]
  /\ now_tsc' = now_tsc + 1
  /\ ppc' = "copy"
  /\ UNCHANGED <<xvars, cvars, svars, avars, writing_idx, written_idx, read_idx, read_idx_cache, last_ret,
                 cpc, c, nPub, alloc, committed, pending, delivered, last_read,
                 nPopped, nDropped, mono, oob>>

\* bytes of a message of `total` bytes that fall into its k-th block
bytes_in_block(total, k) ==
  IF total - k * BLOCK_SIZE > BLOCK_SIZE THEN BLOCK_SIZE
  ELSE IF total - k * BLOCK_SIZE < 0 THEN 0 ELSE total - k * BLOCK_SIZE

\* block k of the message stamped tsc after the payload copy, from old:
\* the first block keeps its header, a continuation block is overlaid
payload_image(old, tsc, total, k) ==
  LET n == bytes_in_block(total, k) IN
  IF k = 0
    THEN [old EXCEPT !.data = IF n > MSG_HEADER_SIZE THEN <<tsc, 0>> ELSE @]
    ELSE [size  |-> IF n > 0 THEN ArgWord(tsc) ELSE old.size,
          level |-> IF n > 4 THEN ArgWord(tsc) ELSE old.level,
          tsc   |-> IF n > 8 THEN ArgWord(tsc) ELSE old.tsc,
          func  |-> IF n > 16 THEN ArgWord(tsc) ELSE old.func,
          data  |-> IF n > MSG_HEADER_SIZE THEN <<tsc, k>> ELSE old.data]

\* ptr::copy_nonoverlapping(args, payload, len); a store beyond the block
\* array does not land in it
copy_payload ==
  /\ ppc = "copy"
  /\ blk' = [i \in DOMAIN blk |->
               IF i >= p.hdr /\ i < p.hdr + p.blk_sz
                 THEN payload_image(blk[i], p.tsc, p.total, i - p.hdr)
                 ELSE blk[i]]
  /\ oob' = (oob \/ p.hdr + p.blk_sz > BLK_CNT)
  /\ ppc' = "commit_size"
  /\ UNCHANGED <<xvars, cvars, svars, avars, writing_idx, written_idx, read_idx, read_idx_cache, p,
                 last_ret, now_tsc, cpc, c, nPub, alloc, committed, pending,
                 delivered, last_read, nPopped, nDropped, mono>>

(***************************************************************************)
(* Producer::commit (147-154).                                             *)
(***************************************************************************)
\* publish size last
commit_size ==
  /\ ppc = "commit_size"
  /\ blk' = [blk EXCEPT ![p.hdr].size = p.total]
  /\ ppc' = "commit_written"
  /\ UNCHANGED <<xvars, cvars, svars, avars, writing_idx, written_idx, read_idx, read_idx_cache, p,
                 last_ret, now_tsc, cpc, c, nPub, alloc, committed, pending,
                 delivered, last_read, nPopped, nDropped, mono, oob>>

\* blocks of a message of sz bytes that hold payload bytes
payload_blocks(sz) ==
  { k \in 0..(div_ceil(sz, BLOCK_SIZE) - 1) :
      bytes_in_block(sz, k) > (IF k = 0 THEN MSG_HEADER_SIZE ELSE 0) }

\* what the producer stored for the message it is publishing
stored_msg ==
  [size |-> p.total, level |-> p.site.level, tsc |-> p.tsc,
   func |-> p.site.func,
   payload |-> [k \in payload_blocks(p.total) |->
                  IF k = 0 \/ bytes_in_block(p.total, k) > MSG_HEADER_SIZE
                    THEN <<p.tsc, k>> ELSE <<ArgWord(p.tsc), k>>]]

\* a commit that leaves out the store of written_idx (153)
commit_without_publish ==
  /\ ppc = "commit_written"
  /\ committed' = Append(committed, p.tsc)
  /\ pending' = Append(pending, stored_msg)
  /\ last_ret' = "true"
  /\ p' = no_locals
  /\ ppc' = "idle"
  /\ UNCHANGED <<xvars, cvars, svars, avars, blk, writing_idx, written_idx, read_idx, read_idx_cache,
                 now_tsc, cpc, c, nPub, alloc, delivered, last_read, nPopped,
                 nDropped, mono, oob>>

\* written_idx = writing_idx; publish_args returns true
commit_written ==
  /\ ppc = "commit_written"
  /\ written_idx' = writing_idx
  /\ mono' = [mono EXCEPT !.written = mono.writing]
  /\ committed' = Append(committed, p.tsc)
  /\ pending' = Append(pending, stored_msg)
  /\ last_ret' = "true"
  /\ p' = no_locals
  /\ ppc' = "idle"
  /\ UNCHANGED <<xvars, cvars, svars, avars, blk, writing_idx, read_idx, read_idx_cache, now_tsc, cpc, c,
                 nPub, alloc, delivered, last_read, nPopped, nDropped, oob>>

(***************************************************************************)
(* Consumer::front (160-184).                                              *)
(***************************************************************************)
\* loads of read_idx and written_idx, empty test (161-163)
front_load ==
  /\ cpc = "idle"
  /\ IF read_idx = written_idx
       THEN /\ cpc' = "idle"
            /\ c' = no_front
       ELSE /\ cpc' = "front_loop"
            /\ c' = [no_front EXCEPT !.r = read_idx, !.w = written_idx]
  /\ UNCHANGED <<xvars, cvars, svars, avars, blk, writing_idx, written_idx, read_idx, read_idx_cache, ppc,
                 p, last_ret, now_tsc, nPub, alloc, committed, pending,
                 delivered, last_read, nPopped, nDropped, mono, oob>>

\* one iteration of the loop (167-183): size 0 skips to the ring start
front_loop ==
  LET cur == and_mask(c.r)
      sz == blk[cur].size
      pad == BLK_CNT - and_mask(c.r)
      r == wrapping_add(c.r, pad)
  IN /\ cpc = "front_loop"
     /\ mono.read < MaxBlocks
     /\ IF sz = 0
          THEN /\ read_idx' = r
               /\ mono' = [mono EXCEPT !.read = @ + pad]
               /\ IF r = c.w
                    THEN cpc' = "idle" /\ c' = no_front
                    ELSE cpc' = "front_loop"
                         /\ c' = [c EXCEPT !.r = r, !.skipped = TRUE]
          ELSE /\ c' = [c EXCEPT !.hdr = cur, !.sz = sz]
               /\ cpc' = "record"
               /\ UNCHANGED <<read_idx, mono>>
     /\ UNCHANGED <<xvars, cvars, svars, avars, blk, writing_idx, written_idx, read_idx_cache, ppc, p,
                    last_ret, now_tsc, nPub, alloc, committed, pending,
                    delivered, last_read, nPopped, nDropped, oob>>

(***************************************************************************)
(* run, the body of the while-let (run_log2.rs 74-81).                     *)
(***************************************************************************)
\* the header and the payload bytes read through hdr and payload
read_msg(b, hdr, sz) ==
  [size |-> sz, level |-> b[hdr].level, tsc |-> b[hdr].tsc,
   func |-> b[hdr].func,
   payload |-> [k \in payload_blocks(sz) |->
                  IF hdr + k \in DOMAIN b
                    THEN IF k = 0 \/ bytes_in_block(sz, k) > MSG_HEADER_SIZE
                           THEN b[hdr + k].data
                           ELSE <<b[hdr + k].size, k>>
                    ELSE <<0, 0>>]]

\* run 77: the slice handed to on_record, as byte offsets into the ring;
\* payload is front's base_ptr.add(MSG_HEADER_SIZE), total its size
log_payload(hdr, total) ==
  [from |-> hdr * BLOCK_SIZE + MSG_HEADER_SIZE, len |-> total]

\* console_sink.on_record(tid, log_header, log_payload)
on_record ==
  /\ cpc = "record"
  /\ Len(delivered) <= MaxMsgs
  /\ last_read' = read_msg(blk, c.hdr, c.sz)
  /\ delivered' = Append(delivered, blk[c.hdr].tsc)
  /\ cpc' = "pop"
  /\ UNCHANGED <<xvars, cvars, svars, avars, blk, writing_idx, written_idx, read_idx, read_idx_cache, ppc,
                 p, last_ret, now_tsc, c, nPub, alloc, committed, pending,
                 nPopped, nDropped, mono, oob>>

(***************************************************************************)
(* Consumer::pop (187-199).                                                *)
(***************************************************************************)
pop ==
  LET r == read_idx
      sz == blk[and_mask(r)].size
      blk_sz == div_ceil(sz, BLOCK_SIZE)
  IN /\ cpc = "pop"
     /\ read_idx' = wrapping_add(r, blk_sz)
     /\ mono' = [mono EXCEPT !.read = @ + blk_sz]
     /\ nPopped' = nPopped + 1
     /\ pending' = IF pending = <<>> THEN pending ELSE Tail(pending)
     /\ c' = no_front
     /\ cpc' = "idle"
     /\ UNCHANGED <<xvars, cvars, svars, avars, blk, writing_idx, written_idx, read_idx_cache, ppc, p,
                    last_ret, now_tsc, nPub, alloc, committed, delivered,
                    last_read, nDropped, oob>>

\* LoggerHandle::publish_args, one step of the producer thread
publish_args ==
  \/ \E site \in Sites : try_alloc_check(site)
  \/ try_alloc_rewind
  \/ fill_header
  \/ copy_payload
  \/ commit_size
  \/ commit_written

\* run, one step of the consumer thread
run ==
  \/ front_load
  \/ front_loop
  \/ on_record
  \/ pop

(***************************************************************************)
(* The TSC clock (src/src/tscns.rs).  Times are counted in units of 1000   *)
(* ns, so the literal 1000 of save_param is one unit; an f64 is an exact   *)
(* fraction <<numerator, denominator>>.                                    *)
(***************************************************************************)
RECURSIVE gcd(_, _)
gcd(a, b) == IF b = 0 THEN a ELSE gcd(b, a % b)
abs(x) == IF x < 0 THEN -x ELSE x
\* the fraction n/d in lowest terms, d > 0
frac(n, d) ==
  LET g == gcd(abs(n), abs(d))
      sg == IF d < 0 THEN -1 ELSE 1
  IN <<(sg * n) \div g, (sg * d) \div g>>
\* integer division of Rust: toward zero
trunc_div(a, b) ==
  IF (a >= 0) = (b > 0) THEN abs(a) \div abs(b) ELSE -(abs(a) \div abs(b))
\* (x * f) as i64, for an integer x and an f64 f
mul_as_i64(x, f) == trunc_div(x * f[1], f[2])
\* (x / f) as i64; a division by 0.0 saturates
div_as_i64(x, f) == IF f[1] = 0 THEN BigTsc ELSE trunc_div(x * f[2], f[1])

no_sp == [base_tsc |-> 0, base_ns |-> 0, sys_ns |-> 0,
          new_ns_per_tsc |-> <<0, 1>>, seq |-> 0, expire_ns |-> 0]
no_rd == [tsc |-> 0, before_seq |-> 0, base_tsc |-> 0, ns_per_tsc |-> <<0, 1>>,
          base_ns |-> 0]
no_ret == [base_tsc |-> 0, base_ns |-> 0, ns_per_tsc |-> <<0, 1>>, ns |-> 0,
           valid |-> FALSE]

CInit ==
  /\ PARAM_SEQ = 0
  /\ NS_PER_TSC = <<0, 1>>
  /\ BASE_TSC = 0
  /\ BASE_NS = 0
  /\ CALIBATE_INTERVAL_NS = 0
  /\ BASE_NS_ERR = 0
  /\ NEXT_CALIBRATE_TSC = 0
  /\ tsc_now = StartTsc
  /\ sys_now = StartNs
  /\ wpc = "init"
  /\ sp = no_sp
  /\ rpc = "idle"
  /\ rd = no_rd
  /\ tsc2ns_ret = no_ret
  /\ commits = {<<0, 0, <<0, 1>>>>}
  /\ nTicks = 0
  /\ nCal = 0
  /\ nReads = 0

\* sync_time (201-243): the sample pair with the narrowest tsc bracket; the
\* clocks do not move inside one step, so every pair is the current one
sync_time == <<tsc_now, sys_now>>

\* time passes: the counter runs at about one cycle per half unit, the
\* system clock may be stepped
tick ==
  /\ nTicks < MaxTicks
  /\ nTicks' = nTicks + 1
  /\ \E d \in ClockSteps :
       tsc_now' = tsc_now + d[1] /\ sys_now' = sys_now + d[2]
  /\ UNCHANGED <<xvars, qvars, svars, avars, PARAM_SEQ, NS_PER_TSC, BASE_TSC, BASE_NS,
                 CALIBATE_INTERVAL_NS, BASE_NS_ERR, NEXT_CALIBRATE_TSC, wpc,
                 sp, rpc, rd, tsc2ns_ret, commits, nCal, nReads>>

\* init (55-59): the interval and the first sample
init_start ==
  /\ wpc = "init"
  /\ CALIBATE_INTERVAL_NS' = CalibrateInterval
  /\ sp' = [no_sp EXCEPT !.base_tsc = sync_time[1], !.base_ns = sync_time[2],
              !.expire_ns = sync_time[2] + InitCalibrate]
  /\ wpc' = "init_spin"
  /\ UNCHANGED <<xvars, qvars, svars, avars, PARAM_SEQ, NS_PER_TSC, BASE_TSC, BASE_NS, BASE_NS_ERR,
                 NEXT_CALIBRATE_TSC, tsc_now, sys_now, rpc, rd, tsc2ns_ret,
                 commits, nTicks, nCal, nReads>>

\* init (60-70): the spin ends, second sample, the call of save_param
init_finish ==
  LET delayed == sync_time
      init_ns_per_tsc == frac(delayed[2] - sp.base_ns, delayed[1] - sp.base_tsc)
  IN /\ wpc = "init_spin"
     /\ sys_now >= sp.expire_ns
     /\ delayed[1] # sp.base_tsc
     /\ sp' = [sp EXCEPT !.sys_ns = sp.base_ns,
                         !.new_ns_per_tsc = init_ns_per_tsc]
     /\ commits' = commits \cup {<<sp.base_tsc, sp.base_ns, init_ns_per_tsc>>}
     /\ wpc' = "sp_err"
     /\ UNCHANGED <<xvars, qvars, svars, avars, PARAM_SEQ, NS_PER_TSC, BASE_TSC, BASE_NS,
                    CALIBATE_INTERVAL_NS, BASE_NS_ERR, NEXT_CALIBRATE_TSC,
                    tsc_now, sys_now, rpc, rd, tsc2ns_ret, nTicks, nCal,
                    nReads>>

\* base_ns + ((tsc - base_tsc) as f64 * ns_per_tsc) as i64  (150-157)
ns_of(tsc, base_tsc, base_ns, ns_per_tsc) ==
  base_ns + mul_as_i64(tsc - base_tsc, ns_per_tsc)

\* calibrate (98-125), up to the call of save_param; tsc2ns(tsc) runs on
\* the only thread that writes the parameters
calibrate ==
  LET tsc == sync_time[1]
      ns == sync_time[2]
      calculated_ns == ns_of(tsc, BASE_TSC, BASE_NS, NS_PER_TSC)
      ns_err == calculated_ns - ns
      divisor == ns - BASE_NS + BASE_NS_ERR
      expected_err_at_next_calibration ==
        ns_err + trunc_div((ns_err - BASE_NS_ERR) * CALIBATE_INTERVAL_NS, divisor)
      new_ns_per_tsc ==
        frac(NS_PER_TSC[1]
               * (CALIBATE_INTERVAL_NS - expected_err_at_next_calibration),
             NS_PER_TSC[2] * CALIBATE_INTERVAL_NS)
  IN /\ wpc = "idle"
     /\ nCal < MaxCalibrations
     /\ nCal' = nCal + 1
     /\ IF tsc_now < NEXT_CALIBRATE_TSC
          THEN UNCHANGED <<wpc, sp, commits>>
          ELSE IF divisor = 0
            THEN wpc' = "panicked" /\ UNCHANGED <<sp, commits>>
            ELSE /\ wpc' = "sp_err"
                 /\ sp' = [no_sp EXCEPT !.base_tsc = tsc,
                             !.base_ns = calculated_ns, !.sys_ns = ns,
                             !.new_ns_per_tsc = new_ns_per_tsc]
                 /\ commits' = commits \cup {<<tsc, calculated_ns, new_ns_per_tsc>>}
     /\ UNCHANGED <<xvars, qvars, svars, avars, PARAM_SEQ, NS_PER_TSC, BASE_TSC, BASE_NS,
                    CALIBATE_INTERVAL_NS, BASE_NS_ERR, NEXT_CALIBRATE_TSC,
                    tsc_now, sys_now, rpc, rd, tsc2ns_ret, nTicks, nReads>>

(***************************************************************************)
(* save_param (177-198), one action per store another thread can see.      *)
(***************************************************************************)
\* 179-186: the error goes to BASE_NS; the next calibration time
sp_err ==
  /\ wpc = "sp_err"
  /\ BASE_NS' = sp.base_ns - sp.sys_ns
  /\ NEXT_CALIBRATE_TSC' =
       sp.base_tsc
         + div_as_i64(CALIBATE_INTERVAL_NS - CalibrateGuard, sp.new_ns_per_tsc)
  /\ wpc' = "sp_odd"
  /\ UNCHANGED <<xvars, qvars, svars, avars, PARAM_SEQ, NS_PER_TSC, BASE_TSC, CALIBATE_INTERVAL_NS,
                 BASE_NS_ERR, tsc_now, sys_now, sp, rpc, rd, tsc2ns_ret,
                 commits, nTicks, nCal, nReads>>

\* 188-189
sp_odd ==
  /\ wpc = "sp_odd"
  /\ sp' = [sp EXCEPT !.seq = PARAM_SEQ]
  /\ PARAM_SEQ' = PARAM_SEQ + 1
  /\ wpc' = "sp_tsc"
  /\ UNCHANGED <<xvars, qvars, svars, avars, NS_PER_TSC, BASE_TSC, BASE_NS, CALIBATE_INTERVAL_NS,
                 BASE_NS_ERR, NEXT_CALIBRATE_TSC, tsc_now, sys_now, rpc, rd,
                 tsc2ns_ret, commits, nTicks, nCal, nReads>>

\* 192
sp_tsc ==
  /\ wpc = "sp_tsc"
  /\ BASE_TSC' = sp.base_tsc
  /\ wpc' = "sp_ns"
  /\ UNCHANGED <<xvars, qvars, svars, avars, PARAM_SEQ, NS_PER_TSC, BASE_NS, CALIBATE_INTERVAL_NS,
                 BASE_NS_ERR, NEXT_CALIBRATE_TSC, tsc_now, sys_now, sp, rpc, rd,
                 tsc2ns_ret, commits, nTicks, nCal, nReads>>

\* 193
sp_ns ==
  /\ wpc = "sp_ns"
  /\ BASE_NS' = sp.base_ns
  /\ wpc' = "sp_nspt"
  /\ UNCHANGED <<xvars, qvars, svars, avars, PARAM_SEQ, NS_PER_TSC, BASE_TSC, CALIBATE_INTERVAL_NS,
                 BASE_NS_ERR, NEXT_CALIBRATE_TSC, tsc_now, sys_now, sp, rpc, rd,
                 tsc2ns_ret, commits, nTicks, nCal, nReads>>

\* 194
sp_nspt ==
  /\ wpc = "sp_nspt"
  /\ NS_PER_TSC' = sp.new_ns_per_tsc
  /\ wpc' = "sp_even"
  /\ UNCHANGED <<xvars, qvars, svars, avars, PARAM_SEQ, BASE_TSC, BASE_NS, CALIBATE_INTERVAL_NS,
                 BASE_NS_ERR, NEXT_CALIBRATE_TSC, tsc_now, sys_now, sp, rpc, rd,
                 tsc2ns_ret, commits, nTicks, nCal, nReads>>

\* 196
sp_even ==
  /\ wpc = "sp_even"
  /\ PARAM_SEQ' = sp.seq + 2
  /\ sp' = no_sp
  /\ wpc' = "idle"
  /\ UNCHANGED <<xvars, qvars, svars, avars, NS_PER_TSC, BASE_TSC, BASE_NS, CALIBATE_INTERVAL_NS,
                 BASE_NS_ERR, NEXT_CALIBRATE_TSC, tsc_now, sys_now, rpc, rd,
                 tsc2ns_ret, commits, nTicks, nCal, nReads>>

save_param == sp_err \/ sp_odd \/ sp_tsc \/ sp_ns \/ sp_nspt \/ sp_even

(***************************************************************************)
(* tsc2ns (144-164) on another thread, one action per load.                *)
(***************************************************************************)
\* the parameters are initialised before the reading threads are spawned
\* (run_log2.rs 38-58)
inited == wpc \notin {"init", "init_spin"} /\ PARAM_SEQ >= 2

\* 146: PARAM_SEQ & !1
rd_before ==
  /\ rpc \in {"idle", "retry"}
  /\ inited
  /\ rpc = "idle" => nReads < MaxReads
  /\ nReads' = IF rpc = "idle" THEN nReads + 1 ELSE nReads
  /\ rd' = [no_rd EXCEPT !.tsc = IF rpc = "idle" THEN tsc_now ELSE rd.tsc,
                         !.before_seq = PARAM_SEQ - (PARAM_SEQ % 2)]
  /\ rpc' = "rd_tsc"
  /\ UNCHANGED <<xvars, qvars, svars, avars, PARAM_SEQ, NS_PER_TSC, BASE_TSC, BASE_NS,
                 CALIBATE_INTERVAL_NS, BASE_NS_ERR, NEXT_CALIBRATE_TSC, tsc_now,
                 sys_now, wpc, sp, tsc2ns_ret, commits, nTicks, nCal>>

\* 152
rd_tsc ==
  /\ rpc = "rd_tsc"
  /\ rd' = [rd EXCEPT !.base_tsc = BASE_TSC]
  /\ rpc' = "rd_nspt"
  /\ UNCHANGED <<xvars, qvars, svars, avars, PARAM_SEQ, NS_PER_TSC, BASE_TSC, BASE_NS,
                 CALIBATE_INTERVAL_NS, BASE_NS_ERR, NEXT_CALIBRATE_TSC, tsc_now,
                 sys_now, wpc, sp, tsc2ns_ret, commits, nTicks, nCal, nReads>>

\* 155
rd_nspt ==
  /\ rpc = "rd_nspt"
  /\ rd' = [rd EXCEPT !.ns_per_tsc = NS_PER_TSC]
  /\ rpc' = "rd_ns"
  /\ UNCHANGED <<xvars, qvars, svars, avars, PARAM_SEQ, NS_PER_TSC, BASE_TSC, BASE_NS,
                 CALIBATE_INTERVAL_NS, BASE_NS_ERR, NEXT_CALIBRATE_TSC, tsc_now,
                 sys_now, wpc, sp, tsc2ns_ret, commits, nTicks, nCal, nReads>>

\* 156
rd_ns ==
  /\ rpc = "rd_ns"
  /\ rd' = [rd EXCEPT !.base_ns = BASE_NS]
  /\ rpc' = "rd_after"
  /\ UNCHANGED <<xvars, qvars, svars, avars, PARAM_SEQ, NS_PER_TSC, BASE_TSC, BASE_NS,
                 CALIBATE_INTERVAL_NS, BASE_NS_ERR, NEXT_CALIBRATE_TSC, tsc_now,
                 sys_now, wpc, sp, tsc2ns_ret, commits, nTicks, nCal, nReads>>

\* 159-162: return ns when the sequence did not move, else go round
rd_after ==
  /\ rpc = "rd_after"
  /\ IF rd.before_seq = PARAM_SEQ
       THEN /\ tsc2ns_ret' =
                 [base_tsc |-> rd.base_tsc, base_ns |-> rd.base_ns,
                  ns_per_tsc |-> rd.ns_per_tsc,
                  ns |-> ns_of(rd.tsc, rd.base_tsc, rd.base_ns, rd.ns_per_tsc),
                  valid |-> TRUE]
            /\ rd' = no_rd
            /\ rpc' = "idle"
       ELSE /\ rpc' = "retry"
            /\ UNCHANGED <<tsc2ns_ret, rd>>
  /\ UNCHANGED <<xvars, qvars, svars, avars, PARAM_SEQ, NS_PER_TSC, BASE_TSC, BASE_NS,
                 CALIBATE_INTERVAL_NS, BASE_NS_ERR, NEXT_CALIBRATE_TSC, tsc_now,
                 sys_now, wpc, sp, commits, nTicks, nCal, nReads>>

tsc2ns == rd_before \/ rd_tsc \/ rd_nspt \/ rd_ns \/ rd_after

(***************************************************************************)
(* Line rendering (src/src/format.rs, src/src/my_bytes_mut.rs).  Byte      *)
(* buffers are strings; ESC stands for the byte 0x1b.                      *)
(***************************************************************************)
ESC == "^"
SCRATCH_CAPACITY == 512
TIME_LEN == 14
TID_LEN == 4

DEC_2DIGITS_LUT ==
  "0001020304050607080910111213141516171819" \o
  "2021222324252627282930313233343536373839" \o
  "4041424344454647484950515253545556575859" \o
  "6061626364656667686970717273747576777879" \o
  "8081828384858687888990919293949596979899"

\* n bytes of a table, from the byte offset off
lut_bytes(lut, off, n) == SubSeq(lut, off + 1, off + n)

ascii_digit(d) == lut_bytes("0123456789", d, 1)

\* one entry of DEC_4DIGITS_LUT, as build_4digit_table fills it
DEC_4DIGITS_LUT(i) ==
  "." \o ascii_digit((i \div 100) % 10) \o ascii_digit((i \div 10) % 10)
      \o ascii_digit(i % 10)

lut_msus(ms, us) == DEC_4DIGITS_LUT(ms) \o DEC_4DIGITS_LUT(us)

civil_from_days(days) ==
  LET z == days + 719468
      era == (IF z >= 0 THEN z ELSE z - 146096) \div 146097
      doe == z - era * 146097
      yoe == (doe - (doe \div 1460) + (doe \div 36524) - (doe \div 146096))
               \div 365
      doy == doe - (365 * yoe + (yoe \div 4) - (yoe \div 100))
      mp == (5 * doy + 2) \div 153
      d == doy - ((153 * mp + 2) \div 5) + 1
      m == mp + (IF mp < 10 THEN 3 ELSE -9)
  IN  <<m, d>>

split_utc(secs) ==
  LET days == secs \div 86400
      sod == secs % 86400
      md == civil_from_days(days)
  IN  <<md[1], md[2], sod \div 3600, (sod % 3600) \div 60, sod % 60>>

\* TimeCache::refresh_dt: what it leaves in the caller's buffer.  The cache
\* of the last second holds the same bytes and is not modelled.
refresh_dt(curr_sec) ==
  LET t == split_utc(curr_sec)
      two(v) == lut_bytes(DEC_2DIGITS_LUT, 2 * v, 2)
  IN  two(t[1]) \o "-" \o two(t[2]) \o " " \o two(t[3]) \o ":" \o two(t[4])
        \o ":" \o two(t[5])

\* TidCache: the table new builds and the four bytes write copies
tid_lut(t) == "T=" \o lut_bytes(DEC_2DIGITS_LUT, 2 * t, 2)
TidCache_write(t) == tid_lut(t)

LEVEL_STRS ==
  << "trace", "debug",
     ESC \o "[32minfo" \o ESC \o "[m ",
     ESC \o "[31mwarn" \o ESC \o "[m ",
     ESC \o "[31merror" \o ESC \o "[m",
     "unk  " >>

\* MyBytesMut: a buffer is [bytes, ok]; ok turns FALSE when the assertion of
\* extend_from_slice fails, and stays so.
with_capacity == [bytes |-> "", ok |-> TRUE]
push(buf, b) == [buf EXCEPT !.bytes = @ \o b]
\* the bytes a caller wrote into unfilled(), made part of the buffer
advance(buf, written, n) == [buf EXCEPT !.bytes = @ \o lut_bytes(written, 0, n)]
extend_from_slice(buf, src) ==
  CHOOSE r \in
    { IF b.ok /\ SCRATCH_CAPACITY > Len(b.bytes) + Len(src)
        THEN [b EXCEPT !.bytes = @ \o src]
        ELSE [b EXCEPT !.ok = FALSE] : b \in {buf} } : TRUE

(***************************************************************************)
(* The decoder a call site registers (src/src/log.rs 152-182).             *)
(***************************************************************************)
RECURSIVE repeat(_, _)
repeat(b, n) ==
  IF n = 0 THEN ""
  ELSE CHOOSE r \in { half \o half \o (IF n % 2 = 1 THEN b ELSE "")
                        : half \in {repeat(b, n \div 2)} } : TRUE

\* what write!(out, "{}", v) writes for an unsigned integer
RECURSIVE display(_)
display(v) ==
  IF v < 10 THEN ascii_digit(v) ELSE display(v \div 10) \o ascii_digit(v % 10)

\* str::rfind(MAIN_SEPARATOR): the offset of the last '/', or -1
RECURSIVE rfind(_, _)
rfind(str, n) ==
  IF n = 0 THEN -1
  ELSE IF lut_bytes(str, n - 1, 1) = "/" THEN n - 1 ELSE rfind(str, n - 1)

file_name(file) ==
  LET n == Len(file)
      stem == IF n >= 3 /\ lut_bytes(file, n - 3, 3) = ".rs"
                THEN lut_bytes(file, 0, n - 3) ELSE file
      index == rfind(stem, Len(stem))
  IN  IF index >= 0 THEN lut_bytes(stem, index + 1, Len(stem) - index - 1)
      ELSE stem

write_loc_tid(out, src_loc, t) ==
  LET o1 == extend_from_slice(out, src_loc.module_path)
      o2 == extend_from_slice(o1, "::")
      o3 == extend_from_slice(o2, file_name(src_loc.file))
      o4 == extend_from_slice(o3, "#")
      o5 == extend_from_slice(o4, display(src_loc.line))
      o6 == extend_from_slice(o5, " ")
      o7 == extend_from_slice(o6, display(t))
  IN  extend_from_slice(o7, "] ")

\* __hft_shim: the location, then the format string with its arguments
hft_shim(out, src_loc, t, body) ==
  extend_from_slice(write_loc_tid(out, src_loc, t), body)

\* the call sites of the sink's messages: level, location, formatted body
SinkSites ==
  { [level |-> 0, module_path |-> "app", file |-> "src/main.rs", line |-> 7,
     body |-> "a=1 b=2"],
    [level |-> 1, module_path |-> "app", file |-> "src/main.rs", line |-> 12,
     body |-> "retry n=2 of 5"],
    [level |-> 2, module_path |-> "app::md", file |-> "feed.rs", line |-> 120,
     body |-> "px=10 qty=3"],
    [level |-> 3, module_path |-> "app", file |-> "src/main.rs", line |-> 30,
     body |-> repeat("w", MaxBody)],
    [level |-> 4, module_path |-> "app", file |-> "src/main.rs", line |-> 41,
     body |-> repeat("e", MaxBody - 2)] }

\* tsc2ns(hdr.tsc) of a message as <<seconds, nanoseconds of the second>>
RenderTimes == { <<0, 0>>, <<1767323045, 123456789>> }
\* the messages the sink is fed: a site and the time of the call
SinkMsgs ==
  { m \in SinkSites \X RenderTimes : (m[1].level % 2 = 0) <=> (m[2][1] = 0) }
Lags == {0, MaxLag}
Tids == {0, 31}

(***************************************************************************)
(* ConsoleBatchSink (src/src/console_sink.rs).                             *)
(***************************************************************************)
MaxAge == FlushInterval + MaxLag

no_call == [op |-> "none", ret |-> "Ok", flushed |-> FALSE, changed |-> FALSE,
            pre_empty |-> TRUE, pre_age |-> 0, post_len |-> 0, post_age |-> 0,
            site |-> [level |-> 0, module_path |-> "", file |-> "",
                      line |-> 0, body |-> ""],
            time |-> <<0, 0>>]

\* ConsoleBatchSink::new (34-56) inside run (68-73): the first pass of the
\* loop has begun
SInit ==
  /\ batch = "" /\ scratch = "" /\ flush_age = 0 /\ stdout = ""
  /\ no_data = 1 /\ num_loop = 0 /\ spc = "loop"
  /\ rendered = "" /\ io_errors = 0 /\ last_call = no_call /\ nLines = 0

\* should_flush (59-61); since is now_cycles - last_flush_cycles
should_flush(batch_len, since) ==
  batch_len >= FlushBytes \/ since >= FlushInterval

\* flush_now (64-80): the states it can leave behind.  write_all can fail
\* after part of the batch went out, flush after all of it did.
flush_now(bat, out, age) ==
  LET printed == out \o "flush_now\n" IN
  IF bat = ""
    THEN { [batch |-> bat, stdout |-> printed, flush_age |-> 0,
            ret |-> "Ok"] }
    ELSE { [batch |-> "", stdout |-> printed \o bat, flush_age |-> 0,
            ret |-> "Ok"] }
         \cup { [batch |-> bat, stdout |-> printed \o lut_bytes(bat, 0, k),
                 flush_age |-> age, ret |-> "Err"]
                   : k \in {0, Len(bat) \div 2} }
         \cup { [batch |-> bat, stdout |-> printed \o bat, flush_age |-> age,
                 ret |-> "Err"] }

\* on_record 86-118: the scratch buffer after rendering one message
render(t, site, time) ==
  LET curr_sec == time[1]
      sub_ns == time[2]
      sub_us == sub_ns \div 1000
      curr_ms == sub_us \div 1000
      curr_us == sub_us % 1000
      s1 == push(with_capacity, "[")
      s2 == advance(s1, refresh_dt(curr_sec), TIME_LEN)
      s3 == advance(s2, lut_msus(curr_ms, curr_us), 8)
      s4 == push(s3, " ")
      s5 == advance(s4, TidCache_write(t), TID_LEN)
      s6 == push(s5, " ")
      s7 == extend_from_slice(s6, LEVEL_STRS[site.level + 1])
      s8 == hft_shim(s7, site, t, site.body)
  IN  CHOOSE r \in { IF s.ok THEN push(s, "\n") ELSE s : s \in {s8} } : TRUE

\* on_idle without its test of the batch
on_idle_any_batch(bat, since) == since >= FlushInterval
\* on_idle's condition (132-133)
on_idle_due(bat, since) == bat # "" /\ since >= FlushInterval

\* run 83 with = in place of +=
count_idle_restart(n, nd) == nd
\* run 83: num_loop += no_data
count_idle(n, nd) == IF n + nd > IdleLoops THEN IdleLoops ELSE n + nd

\* run 74-81 for one message: on_record(tid, hdr, payload).unwrap(), pop,
\* no_data = 0.  The message was stamped lag cycles ago.
run_message ==
  /\ spc = "loop" /\ nLines < MaxLines
  /\ \E msg \in SinkMsgs, lag \in Lags :
     \E line \in {render(tid, msg[1], msg[2])} :
       LET site == msg[1]
           appended == batch \o line.bytes
           call == [no_call EXCEPT !.op = "on_record",
                                   !.pre_empty = (batch = ""),
                                   !.pre_age = flush_age,
                                   !.site = site,
                                   !.time = msg[2]]
       IN
       /\ nLines' = nLines + 1
       /\ scratch' = line.bytes
       /\ UNCHANGED <<tid, num_loop>>
       /\ IF ~line.ok
            THEN \* the assertion of extend_from_slice fails
                 /\ spc' = "panicked"
                 /\ last_call' = [call EXCEPT !.ret = "buff too small",
                                               !.post_len = Len(batch),
                                               !.post_age = flush_age]
                 /\ UNCHANGED <<batch, flush_age, stdout, no_data, rendered,
                                io_errors>>
            ELSE
              /\ rendered' = rendered \o line.bytes
              /\ IF should_flush(Len(appended), flush_age - lag)
                   THEN \E r \in flush_now(appended, stdout, flush_age) :
                     /\ batch' = r.batch
                     /\ stdout' = r.stdout
                     /\ flush_age' = r.flush_age
                     /\ io_errors' = io_errors + (IF r.ret = "Err" THEN 1 ELSE 0)
                     /\ spc' = IF r.ret = "Err" THEN "panicked" ELSE "loop"
                     /\ no_data' = IF r.ret = "Err" THEN no_data ELSE 0
                     /\ last_call' = [call EXCEPT !.ret = r.ret,
                                                  !.flushed = TRUE,
                                                  !.changed = TRUE,
                                                  !.post_len = Len(r.batch),
                                                  !.post_age = r.flush_age]
                   ELSE
                     /\ batch' = appended
                     /\ no_data' = 0
                     /\ last_call' = [call EXCEPT !.changed = TRUE,
                                                  !.post_len = Len(appended),
                                                  !.post_age = flush_age]
                     /\ UNCHANGED <<flush_age, stdout, io_errors, spc>>
  /\ UNCHANGED <<xvars, qvars, cvars, avars>>

\* run 83-88 when front returns None: num_loop += no_data, on_idle once
\* num_loop has reached the threshold, and the next pass starts (73).
run_no_data ==
  /\ spc = "loop"
  /\ LET n == count_idle(num_loop, no_data)
         call == [no_call EXCEPT !.op = "on_idle",
                                 !.pre_empty = (batch = ""),
                                 !.pre_age = flush_age]
     IN
     /\ num_loop' = n
     /\ IF n >= IdleLoops
          THEN
            IF on_idle_due(batch, flush_age)
              THEN \E r \in flush_now(batch, stdout, flush_age) :
                /\ batch' = r.batch
                /\ stdout' = r.stdout
                /\ flush_age' = r.flush_age
                /\ io_errors' = io_errors + (IF r.ret = "Err" THEN 1 ELSE 0)
                /\ spc' = IF r.ret = "Err" THEN "panicked" ELSE "loop"
                /\ no_data' = IF r.ret = "Err" THEN no_data ELSE 1
                /\ last_call' =
                     [call EXCEPT !.ret = r.ret,
                                  !.flushed = TRUE,
                                  !.changed = (<<r.batch, r.stdout, r.flush_age>>
                                                 # <<batch, stdout, flush_age>>),
                                  !.post_len = Len(r.batch),
                                  !.post_age = r.flush_age]
              ELSE
                /\ no_data' = 1
                /\ last_call' = [call EXCEPT !.post_len = Len(batch),
                                             !.post_age = flush_age]
                /\ UNCHANGED <<batch, stdout, flush_age, io_errors, spc>>
          ELSE
            /\ no_data' = 1
            /\ UNCHANGED <<batch, stdout, flush_age, io_errors, spc, last_call>>
  /\ UNCHANGED <<xvars, qvars, cvars, avars, tid, scratch, rendered, nLines>>

\* the cycle counter read_tsc() returns moves on
cycle ==
  /\ flush_age < MaxAge
  /\ flush_age' = flush_age + 1
  /\ UNCHANGED <<xvars, qvars, cvars, avars, tid, batch, scratch, stdout, no_data,
                 num_loop, spc, rendered, io_errors, last_call, nLines>>

(***************************************************************************)
(* Argument images (src/src/args2.rs).  An integer of 16 * n bits is the   *)
(* sequence of its n 16-bit limbs, least significant first; an f64 or an   *)
(* i64 is its 64-bit pattern.                                              *)
(***************************************************************************)
ARGS_OFFSET == 8

\* the little-endian bytes of a value
RECURSIVE to_le_bytes(_)
to_le_bytes(limbs) ==
  IF limbs = <<>> THEN <<>>
  ELSE <<Head(limbs) % 256, Head(limbs) \div 256>> \o to_le_bytes(Tail(limbs))

\* a u32 widened as if it were signed
u32_sign_extended(limbs) ==
  limbs \o (IF limbs[2] >= 32768 THEN <<65535, 65535>> ELSE <<0, 0>>)
\* `self as u64` of a u32
u32_as_u64(limbs) == limbs \o <<0, 0>>

\* IntoArg::into_arg (58-74, 118-127) and the carriers' tags (10-51, 114-116).
\* A POD value is its size, its alignment and its bytes; T::decode as u64 is
\* an address that tells the types apart.
into_arg(x) ==
  IF x.ty = "u32" THEN [ty |-> "ArgU64", bits |-> u32_as_u64(x.bits)]
  ELSE IF x.ty = "u64" THEN [ty |-> "ArgU64", bits |-> x.bits]
  ELSE IF x.ty = "pod"
    THEN [ty |-> "UserPodSnap", size |-> x.size, align |-> x.align,
          decode_fn |-> <<4096 + x.size, 21845, 0, 0>>, data |-> x.data]
  ELSE x
ARG_TAG(d) ==
  IF d.ty = "ArgF64" THEN 0
  ELSE IF d.ty = "ArgU64" THEN 1
  ELSE IF d.ty = "ArgI64" THEN 2
  ELSE (d.size % 256) + 8

\* the bytes of a carrier, size_of the carrier long.  A repr(C)
\* UserPodSnap<T> { decode_fn: u64, data: T } (97-102) has data at the next
\* multiple of T's alignment and ends at a multiple of its own; pad is what
\* its padding bytes happen to hold.
carrier_bytes(d, pad) ==
  IF d.ty = "UserPodSnap"
    THEN LET align_up(n, a) == ((n + a - 1) \div a) * a
             data_at == align_up(8, d.align)
             size == align_up(data_at + d.size,
                              IF d.align > 8 THEN d.align ELSE 8)
         IN  to_le_bytes(d.decode_fn)
               \o [k \in 1..(data_at - 8) |-> pad]
               \o d.data
               \o [k \in 1..(size - data_at - d.size) |-> pad]
    ELSE to_le_bytes(d.bits)

\* the bytes of Args2 { tag1, tag2, _pad: [0; 6], arg1, arg2 }, repr(C, packed)
Args2(d1, d2, pad) ==
  <<ARG_TAG(d1), ARG_TAG(d2), 0, 0, 0, 0, 0, 0>>
    \o carrier_bytes(d1, pad) \o carrier_bytes(d2, pad)

\* repr_off_as::<u64 | i64 | f64>(bytes, offset): the 8 bytes at offset,
\* read as one little-endian value
repr_off_as(bytes, offset) ==
  [k \in 1..4 |-> bytes[offset + 2 * k - 1] + 256 * bytes[offset + 2 * k]]

\* one match of decode_fmt_args2 (155-181, 182-209): what it reads and the
\* offset it leaves.  &bytes[start..offset] panics when the range does not
\* lie in the slice.
decode_arg(tag, bytes, offset) ==
  IF tag \in {0, 1, 2}
    THEN [ty |-> IF tag = 0 THEN "f64" ELSE IF tag = 1 THEN "u64" ELSE "i64",
          bits |-> repr_off_as(bytes, offset),
          next |-> offset + 8]
  ELSE IF offset + 8 > offset + tag \/ offset + tag > Len(bytes)
    THEN [ty |-> "panic", bits |-> <<>>, next |-> offset + tag]
  ELSE [ty |-> "user-pod",
        decode_fn |-> repr_off_as(bytes, offset),
        bits |-> SubSeq(bytes, offset + 8 + 1, offset + tag),
        next |-> offset + tag]

\* the arguments a call site can hand over: native u32 and u64 values, and
\* ArgF64 and ArgI64 carriers with their 64-bit patterns
ArgInputs ==
  { [ty |-> "u32", bits |-> b] :
      b \in { <<0, 0>>, <<8764, 0>>, <<0, 32768>>, <<65535, 65535>> } }
  \cup { [ty |-> "u64", bits |-> b] :
      b \in { <<1, 0, 0, 0>>, <<1800, 1286, 772, 258>>,
              <<65535, 65535, 65535, 65535>> } }
  \cup { [ty |-> "ArgI64", bits |-> b] :
      b \in { <<65535, 65535, 65535, 65535>>, <<0, 0, 0, 32768>>,
              <<42, 0, 0, 0>> } }
  \cup { [ty |-> "ArgF64", bits |-> b] :
      b \in { <<0, 0, 0, 16368>>, <<0, 0, 0, 32768>> } }

\* POD types of several sizes and alignments, one value of each
PodInputs ==
  { [ty |-> "pod", size |-> 1, align |-> 1, data |-> <<201>>],
    [ty |-> "pod", size |-> 4, align |-> 4, data |-> <<1, 2, 3, 4>>],
    [ty |-> "pod", size |-> 12, align |-> 4,
     data |-> <<11, 12, 13, 14, 21, 22, 23, 24, 31, 32, 33, 34>>],
    [ty |-> "pod", size |-> 16, align |-> 8,
     data |-> <<178, 1, 0, 0, 77, 181, 0, 0, 201, 44, 255, 13, 0, 0, 0, 0>>],
    [ty |-> "pod", size |-> 16, align |-> 16,
     data |-> <<1, 2, 3, 4, 5, 6, 7, 8, 9, 10, 11, 12, 13, 14, 15, 16>>] }

AIdle == a_in = <<>> /\ a_bytes = <<>> /\ a_out = <<>> /\ apc = "idle"
ADraw ==
  /\ a_in \in ArgInputs \X ArgInputs
  /\ a_bytes = <<>> /\ a_out = <<>> /\ apc = "input"

\* args2(arg1, arg2) (140-150), then bytes_of the value
args2 ==
  /\ apc = "input"
  /\ \E pad \in {0, 170} :
       a_bytes' = Args2(into_arg(a_in[1]), into_arg(a_in[2]), pad)
  /\ apc' = "encoded"
  /\ UNCHANGED <<xvars, qvars, cvars, svars, a_in, a_out>>

\* decode_fmt_args2(bytes) (152-210)
decode_fmt_args2 ==
  /\ apc = "encoded"
  /\ LET first == decode_arg(a_bytes[1], a_bytes, ARGS_OFFSET)
         second == decode_arg(a_bytes[2], a_bytes, first.next)
     IN  a_out' = IF first.ty = "panic" THEN <<first>> ELSE <<first, second>>
  /\ apc' = "decoded"
  /\ UNCHANGED <<xvars, qvars, cvars, svars, a_in, a_bytes>>

(***************************************************************************)
(* Registration of producer threads (src/src/main.rs 486-533, 683-715):    *)
(* a thread's first push takes an ordinal from NEXT_TID and sends the      *)
(* consumer half of its queue to the logger thread.                        *)
(***************************************************************************)
Threads == 1..MaxThreads

no_tls == [inited |-> FALSE, tid |-> 0, pc |-> "idle"]

\* static NEXT_TID = AtomicU32::new(1); TLS_PROD; every thread holds a clone
\* of the LoggerHandle; the logger thread is spawned by init_logger
RInit ==
  /\ NEXT_TID = 1
  /\ tls = [t \in Threads |-> no_tls]
  /\ senders = Threads
  /\ reg_chan = <<>>
  /\ qs = <<>>
  /\ ltpc = "try_recv"
  /\ ordinals = <<>>

\* a fetch_add that stores back what it loaded
fetch_add_0(v) == v
\* the value NEXT_TID.fetch_add(1, Ordering::Relaxed) leaves in NEXT_TID
fetch_add_1(v) == v + 1

\* get_mut 521-524: the thread is not yet inited; one atomic read-modify-write
get_mut_fetch_add(t) ==
  /\ t \in senders
  /\ tls[t].pc = "idle"
  /\ ~tls[t].inited
  /\ NEXT_TID' = fetch_add_1(NEXT_TID)
  /\ tls' = [tls EXCEPT ![t].tid = NEXT_TID, ![t].pc = "send"]
  /\ ordinals' = Append(ordinals, NEXT_TID)
  /\ UNCHANGED <<qvars, cvars, svars, avars, fvars, callers, yvars, senders, reg_chan, qs, ltpc>>

\* get_mut 526-529: logger.reg_tx.send(RegMsg { cons, tid }), inited.set(true)
get_mut_send(t) ==
  /\ tls[t].pc = "send"
  /\ reg_chan' = Append(reg_chan, tls[t].tid)
  /\ tls' = [tls EXCEPT ![t].inited = TRUE, ![t].pc = "idle"]
  /\ UNCHANGED <<qvars, cvars, svars, avars, fvars, callers, yvars, NEXT_TID, senders, qs, ltpc,
                 ordinals>>

\* the thread's LoggerHandle goes out of scope: its Sender is dropped
drop_LoggerHandle(t) ==
  /\ t \in senders
  /\ tls[t].pc = "idle"
  /\ senders' = senders \ {t}
  /\ UNCHANGED <<qvars, cvars, svars, avars, fvars, callers, yvars, NEXT_TID, tls, reg_chan, qs,
                 ltpc, ordinals>>

\* a try_recv that never finds a message
try_recv_never(chan, tx) == "Empty"
\* what reg_rx.try_recv() returns
try_recv(chan, tx) ==
  IF chan # <<>> THEN "Ok"
  ELSE IF tx = {} THEN "Disconnected" ELSE "Empty"

\* LoggerThread::run, one step of the logger thread: 688-690,
\* while let Ok(msg) = self.reg_rx.try_recv() { add_consumer }, or 692-706,
\* the rest of the loop body, then the next iteration
LoggerThread_run ==
  \/ /\ ltpc = "try_recv"
     /\ IF try_recv(reg_chan, senders) = "Ok"
          THEN /\ qs' = Append(qs, Head(reg_chan))
               /\ reg_chan' = Tail(reg_chan)
               /\ ltpc' = "try_recv"
          ELSE /\ ltpc' = "merge"
               /\ UNCHANGED <<qs, reg_chan>>
     /\ UNCHANGED <<qvars, cvars, svars, avars, fvars, callers, yvars, NEXT_TID, tls,
                    senders, ordinals>>
  \/ /\ ltpc = "merge"
     /\ ltpc' = "try_recv"
     /\ UNCHANGED <<qvars, cvars, svars, avars, fvars, callers, yvars, NEXT_TID, tls,
                    senders, reg_chan, qs, ordinals>>

(***************************************************************************)
(* The fixed-slot SPSC ring (src/src/spsc.rs) under LoggerHandle::push and *)
(* push_write (src/src/run_log.rs 86-104).  usize is scaled to the ring:   *)
(* indices wrap at twice the capacity.  The values pushed are the numbers  *)
(* of the calls; 0 is a slot never written.                                *)
(***************************************************************************)
RECURSIVE next_power_of_two(_)
next_power_of_two(n) == IF is_pow2(n) THEN n ELSE next_power_of_two(n + 1)
\* Producer::capacity / Consumer::capacity: mask + 1
capacity == next_power_of_two(RingCapacity)
usize_wrapping_add(a, b) == (a + b) % (2 * capacity)
usize_wrapping_sub(a, b) == (a - b + 2 * capacity) % (2 * capacity)

\* ring_buffer 71-103
FInit ==
  /\ shared = [tail |-> 0, head |-> 0]
  /\ buffer = [i \in 0..(capacity - 1) |-> 0]
  /\ producer = [local_tail |-> 0, cached_head |-> 0, pc |-> "idle",
                 op |-> "none", value |-> 0, ret |-> "none"]
  /\ consumer = [local_head |-> 0, cached_tail |-> 0, pc |-> "idle",
                 value |-> 0, ret |-> "none"]
  /\ fhist = [calls |-> 0, pushed |-> <<>>, popped |-> <<>>,
              err |-> [seen |-> FALSE, unconsumed |-> 0],
              none |-> [seen |-> FALSE, unpopped |-> 0]]

\* a full test that lets one element too many in
is_full_late(tail, hd) == usize_wrapping_sub(tail, hd) > capacity
\* push_write 157, 161: tail.wrapping_sub(self.cached_head) > self.mask
is_full(tail, hd) == usize_wrapping_sub(tail, hd) > capacity - 1

\* LoggerHandle::push (run_log.rs 88-91) and LoggerHandle::push_write
\* (102) around Producer::push_write (spsc.rs 154-178), one step of the
\* producer thread.  prod.push(value) is push_write storing the value, with
\* the value handed back in Err.
LoggerHandle_push ==
  LET tail == producer.local_tail
      stale == is_full(tail, producer.cached_head)
      cached == IF stale THEN shared.head ELSE producer.cached_head
      unconsumed == Len(fhist.pushed) - Len(fhist.popped)
  IN
  /\ \/ \* the call
        /\ producer.pc = "idle"
        /\ fhist.calls < MaxPush
        /\ \E op \in {"push", "push_write"} :
             producer' = [producer EXCEPT !.pc = "check", !.op = op,
                            !.value = fhist.calls + 1, !.ret = "none"]
        /\ fhist' = [fhist EXCEPT !.calls = @ + 1]
        /\ UNCHANGED <<shared, buffer>>
     \/ \* 155-164, full: push_write returns false, push tries again
        /\ producer.pc = "check"
        /\ is_full(tail, cached)
        /\ producer' = [producer EXCEPT
                          !.cached_head = cached,
                          !.pc = IF producer.op = "push" THEN "check" ELSE "idle",
                          !.ret = "Err"]
        /\ fhist' = [fhist EXCEPT
                       !.err = [seen |-> TRUE, unconsumed |-> unconsumed]]
        /\ UNCHANGED <<shared, buffer>>
     \/ \* 155-164, room
        /\ producer.pc = "check"
        /\ ~is_full(tail, cached)
        /\ producer' = [producer EXCEPT !.cached_head = cached, !.pc = "write"]
        /\ UNCHANGED <<shared, buffer, fhist>>
     \/ \* 167-170: f(&mut *data_ptr)
        /\ producer.pc = "write"
        /\ buffer' = [buffer EXCEPT ![tail % capacity] = producer.value]
        /\ producer' = [producer EXCEPT !.pc = "store"]
        /\ UNCHANGED <<shared, fhist>>
     \/ \* 171-177: tail.store(new_tail), local_tail = new_tail, Ok(())
        /\ producer.pc = "store"
        /\ shared' = [shared EXCEPT !.tail = usize_wrapping_add(tail, 1)]
        /\ producer' = [producer EXCEPT
                          !.local_tail = usize_wrapping_add(tail, 1),
                          !.pc = "idle", !.ret = "Ok"]
        /\ fhist' = [fhist EXCEPT !.pushed = Append(@, producer.value)]
        /\ UNCHANGED buffer
  /\ UNCHANGED <<qvars, cvars, svars, avars, rvars, callers, yvars, consumer>>

\* Consumer::pop (spsc.rs 220-240), one step of the consumer thread
Consumer_pop ==
  LET hd == consumer.local_head
      stale == hd = consumer.cached_tail
      cached == IF stale THEN shared.tail ELSE consumer.cached_tail
      unpopped == Len(fhist.pushed) - Len(fhist.popped)
  IN
  /\ \/ \* 221-230, empty: None
        /\ consumer.pc = "idle"
        /\ hd = cached
        /\ consumer' = [consumer EXCEPT !.cached_tail = cached, !.ret = "None"]
        /\ fhist' = [fhist EXCEPT
                       !.none = [seen |-> TRUE, unpopped |-> unpopped]]
        /\ UNCHANGED <<shared, buffer>>
     \/ \* 221-232: the slot is read
        /\ consumer.pc = "idle"
        /\ hd # cached
        /\ consumer' = [consumer EXCEPT
                          !.cached_tail = cached, !.pc = "store",
                          !.value = buffer[hd % capacity], !.ret = "none"]
        /\ UNCHANGED <<shared, buffer, fhist>>
     \/ \* 233-239: head.store(new_head), local_head = new_head, Some(value)
        /\ consumer.pc = "store"
        /\ shared' = [shared EXCEPT !.head = usize_wrapping_add(hd, 1)]
        /\ consumer' = [consumer EXCEPT
                          !.local_head = usize_wrapping_add(hd, 1),
                          !.pc = "idle", !.ret = "Some"]
        /\ fhist' = [fhist EXCEPT !.popped = Append(@, consumer.value)]
        /\ UNCHANGED buffer
  /\ UNCHANGED <<qvars, cvars, svars, avars, rvars, callers, yvars, producer>>

(***************************************************************************)
(* LoggerHandle::publish_args called through one shared &LoggerHandle      *)
(* (run_log2.rs 10-35): LoggerHandle is Sync, publish_args takes &self and *)
(* builds its Producer over self.queue at every call.                      *)
(***************************************************************************)
no_caller == [pc |-> "idle", site |-> no_site, write_idx |-> 0, hdr |-> 0,
              tsc |-> 0, calls |-> 0, held |-> {}]

HInit == callers = [t \in 1..MaxCallers |-> no_caller]

\* one step of thread t inside publish_args, between two accesses to the
\* queue
publish_args_by(t) ==
  LET me == callers[t]
      blk_sz == blk_sz_of(me.site.len)
  IN
  /\ \/ \* run_log2.rs 16-21, try_alloc 96-116: the free-space decision
        \E site \in Sites :
          LET write_idx == writing_idx
              min_read_idx == min_read_idx_of(site.len, write_idx)
              miss == too_low(read_idx_cache, min_read_idx)
              full == miss /\ too_low(read_idx, min_read_idx)
          IN /\ me.pc = "idle"
             /\ me.calls < MaxCalls
             /\ read_idx_cache' = IF miss THEN read_idx ELSE read_idx_cache
             /\ callers' = [callers EXCEPT ![t] =
                  [me EXCEPT !.calls = @ + 1, !.site = site,
                     !.write_idx = write_idx,
                     !.pc = IF full THEN "idle"
                            ELSE IF rewind_of(site.len, write_idx)
                              THEN "rewind" ELSE "reserve"]]
             /\ UNCHANGED <<blk, writing_idx, written_idx, now_tsc>>
     \/ \* try_alloc 120-128: the rewind marker, writing_idx past the ring end
        /\ me.pc = "rewind"
        /\ blk' = [blk EXCEPT ![and_mask(me.write_idx)].size = 0]
        /\ writing_idx' = wrapping_add(me.write_idx, pad_of(me.write_idx))
        /\ callers' = [callers EXCEPT ![t].write_idx = writing_idx',
                                      ![t].pc = "reserve"]
        /\ UNCHANGED <<read_idx_cache, written_idx, now_tsc>>
     \/ \* try_alloc 130-142: the blocks are reserved
        /\ me.pc = "reserve"
        /\ writing_idx' = wrapping_add(me.write_idx, blk_sz)
        /\ callers' = [callers EXCEPT
                         ![t].hdr = and_mask(me.write_idx),
                         ![t].held = { and_mask(me.write_idx) + k :
                                         k \in 0..(blk_sz - 1) },
                         ![t].pc = "fill"]
        /\ UNCHANGED <<blk, read_idx_cache, written_idx, now_tsc>>
     \/ \* run_log2.rs 23-28: the header fields and the payload
        /\ me.pc = "fill"
        /\ blk' = [i \in DOMAIN blk |->
                     IF i \in me.held
                       THEN payload_image(
                              IF i = me.hdr
                                THEN [blk[i] EXCEPT !.level = me.site.level,
                                        !.tsc = now_tsc, !.func = me.site.func]
                                ELSE blk[i],
                              now_tsc, total_bytes_of(me.site.len), i - me.hdr)
                       ELSE blk[i]]
        /\ callers' = [callers EXCEPT ![t].tsc = now_tsc, ![t].pc = "commit"]
        /\ UNCHANGED <<writing_idx, read_idx_cache, written_idx, now_tsc>>
     \/ \* commit 147-154: size last, then written_idx = writing_idx
        /\ me.pc = "commit"
        /\ blk' = [blk EXCEPT ![me.hdr].size = total_bytes_of(me.site.len)]
        /\ written_idx' = writing_idx
        /\ callers' = [callers EXCEPT ![t].held = {}, ![t].pc = "idle"]
        /\ UNCHANGED <<writing_idx, read_idx_cache, now_tsc>>
  /\ UNCHANGED <<cvars, svars, avars, rvars, fvars, yvars, ppc, p, last_ret,
                 read_idx, cpc, c, nPub, alloc, committed, pending, delivered,
                 last_read, nPopped, nDropped, mono, oob>>

\* the ring with its producer and its consumer
(***************************************************************************)
(* TimeCache (src/src/format.rs 30-74).  i64 is scaled to the width of the *)
(* integers of the model; buf is followed up to TIME_LEN, the rest of its  *)
(* 32 bytes is never read.                                                 *)
(***************************************************************************)
i64_MAX == 2147483647

\* the seconds values handed to refresh_dt: around a minute, a day, a leap
\* day and a year, and the largest i64
Seconds == {0, 59, 86399, 86400, 951782399, 951782400, 1704067199, i64_MAX}

\* TimeCache::new with a sentinel that is a second of 1970
TimeCache_new_zero == [sec |-> 0, buf |-> "00-00 00:00:00"]
\* TimeCache::new (37-47)
TimeCache_new == [sec |-> i64_MAX, buf |-> "00-00 00:00:00"]

\* LoggerThread::new (main.rs 574-582) and threads that have not logged yet
YInit ==
  /\ time_cache = TimeCache_new
  /\ dt = [curr_sec |-> 0, buff |-> "", hit |-> FALSE, earlier |-> <<>>, n |-> 0]
  /\ prods = [ring |-> [t \in Threads |-> <<>>], e |-> [t \in Threads |-> 0],
              rdtsc |-> 1, pushed |-> [t \in Threads |-> <<>>]]
  /\ lt = [head |-> <<>>, heap |-> <<>>, empty |-> <<>>, empty_cursor |-> 0,
           b |-> 0, i |-> 0, popped |-> 0, out |-> <<>>]

\* TimeCache::refresh_dt (49-73), called with any of Seconds
TimeCache_refresh_dt ==
  \E curr_sec \in Seconds :
    LET t == split_utc(curr_sec)
        \* copy_nonoverlapping(DEC_2DIGITS_LUT.as_ptr().add(v << 1), buf.add(off), 2)
        copy2(buf, v, off) ==
          SubSeq(buf, 1, off) \o lut_bytes(DEC_2DIGITS_LUT, 2 * v, 2)
            \o SubSeq(buf, off + 3, Len(buf))
        buf == copy2(copy2(copy2(copy2(copy2(time_cache.buf,
                 t[1], 0), t[2], 3), t[3], 6), t[4], 9), t[5], 12)
        called == [dt EXCEPT !.curr_sec = curr_sec, !.n = @ + 1,
                     !.earlier = IF dt.n = 0 THEN <<>> ELSE Append(@, dt.curr_sec)]
    IN /\ dt.n < MaxRefresh
       /\ IF curr_sec = time_cache.sec
            THEN /\ dt' = [called EXCEPT !.hit = TRUE,
                             !.buff = SubSeq(time_cache.buf, 1, TIME_LEN)]
                 /\ UNCHANGED time_cache
            ELSE /\ time_cache' = [sec |-> curr_sec, buf |-> buf]
                 /\ dt' = [called EXCEPT !.hit = FALSE,
                             !.buff = SubSeq(buf, 1, TIME_LEN)]
       /\ UNCHANGED <<qvars, cvars, svars, avars, rvars, fvars, callers, prods, lt>>

(***************************************************************************)
(* The merging consumer of src/src/main.rs and the threads that log to it. *)
(* A queue is the sequence of the entries in it (spsc.rs keeps them in     *)
(* order); an entry is its tsc, and 0 is None.  Queue ids count from 1.    *)
(***************************************************************************)
SCAN_BUDGET == 4
\* the modulus of empty_cursor: usize, scaled to a multiple of every length
\* the empty list can have
USIZE_MOD == 12

\* Vec::swap_remove(k): the last element takes the place of the k-th
swap_remove(s, k) ==
  LET front == SubSeq(s, 1, Len(s) - 1)
  IN  IF k = Len(s) THEN front ELSE [front EXCEPT ![k] = s[Len(s)]]

\* a log macro on thread t (836-839): from_args stamps the entry (309), then
\* LoggerHandle::push (545-550) registers the thread on first use and pushes;
\* a full queue drops the entry
hft_log(t) ==
  \/ /\ prods.e[t] = 0
     /\ prods.rdtsc <= MaxStamp
     /\ prods' = [prods EXCEPT !.e[t] = prods.rdtsc, !.rdtsc = @ + 1]
     /\ UNCHANGED <<qvars, cvars, svars, avars, rvars, fvars, callers, time_cache,
                    dt, lt>>
  \/ prods.e[t] # 0 /\ get_mut_fetch_add(t)
  \/ get_mut_send(t)
  \/ /\ prods.e[t] # 0
     /\ tls[t].inited
     /\ prods' = [prods EXCEPT
                    !.e[t] = 0,
                    !.ring[t] = IF Len(@) < capacity THEN Append(@, prods.e[t]) ELSE @,
                    !.pushed[t] = IF Len(prods.ring[t]) < capacity
                                    THEN Append(@, prods.e[t]) ELSE @]
     /\ UNCHANGED <<qvars, cvars, svars, avars, rvars, fvars, callers, time_cache,
                    dt, lt>>

\* LoggerThread::run (683-708) with add_consumer, scan_empty_budget and
\* refill_head (585-640), one step for every pop of a queue; write_ok is
\* whether the writes to out succeed
LoggerThread_run_merge ==
  LET \* the thread whose RegMsg carried the ordinal n
      owner(n) == CHOOSE t \in Threads : tls[t].tid = n
      \* Consumer::pop on the queue registered with the ordinal n
      entry(n) ==
        IF prods.ring[owner(n)] = <<>> THEN 0 ELSE Head(prods.ring[owner(n)])
      after_pop(n) ==
        [prods EXCEPT !.ring[owner(n)] = IF @ = <<>> THEN @ ELSE Tail(@)]
      \* BinaryHeap<Reverse<(u64, usize)>>::pop: the least (tsc, qid)
      least == CHOOSE x \in {lt.heap[k] : k \in 1..Len(lt.heap)} :
                 \A k \in 1..Len(lt.heap) :
                   \/ x[1] < lt.heap[k][1]
                   \/ x[1] = lt.heap[k][1] /\ x[2] <= lt.heap[k][2]
      at == CHOOSE k \in 1..Len(lt.heap) : lt.heap[k] = least
      rest == SubSeq(lt.heap, 1, at - 1) \o SubSeq(lt.heap, at + 1, Len(lt.heap))
  IN
  \/ \* 688-690: while let Ok(msg) = try_recv() { add_consumer(msg) }
     /\ ltpc = "try_recv"
     /\ IF try_recv(reg_chan, senders) = "Ok"
          THEN LET th == Head(reg_chan)
                   qid == Len(qs) + 1
                   e == entry(th)
               IN /\ qs' = Append(qs, th)
                  /\ reg_chan' = Tail(reg_chan)
                  /\ prods' = after_pop(th)
                  /\ lt' = [lt EXCEPT
                              !.head = Append(@, e),
                              !.heap = IF e # 0 THEN Append(@, <<e, qid>>) ELSE @,
                              !.empty = IF e = 0 THEN Append(@, qid) ELSE @]
                  /\ UNCHANGED ltpc
          ELSE /\ ltpc' = "scan"
               /\ lt' = [lt EXCEPT !.b = 0]
               /\ UNCHANGED <<qs, reg_chan, prods>>
     /\ UNCHANGED <<qvars, cvars, svars, avars, fvars, callers, time_cache, dt,
                    NEXT_TID, tls, senders, ordinals>>
  \/ \* 693, scan_empty_budget(4): one pass of its loop, or its end
     /\ ltpc = "scan"
     /\ IF lt.b < SCAN_BUDGET /\ lt.empty # <<>>
          THEN LET idx == (lt.empty_cursor % Len(lt.empty)) + 1
                   qid == lt.empty[idx]
                   e == entry(qs[qid])
               IN /\ IF lt.head[qid] = 0
                       THEN /\ prods' = after_pop(qs[qid])
                            /\ lt' = IF e # 0
                                 THEN [lt EXCEPT !.head[qid] = e,
                                         !.heap = Append(@, <<e, qid>>),
                                         !.empty = swap_remove(@, idx),
                                         !.b = @ + 1]
                                 ELSE [lt EXCEPT
                                         !.empty_cursor = (@ + 1) % USIZE_MOD,
                                         !.b = @ + 1]
                       ELSE /\ lt' = [lt EXCEPT !.empty = swap_remove(@, idx),
                                                !.b = @ + 1]
                            /\ UNCHANGED prods
                  /\ UNCHANGED ltpc
          ELSE /\ ltpc' = "pop"
               /\ UNCHANGED <<prods, lt>>
     /\ UNCHANGED <<qvars, cvars, svars, avars, fvars, callers, time_cache, dt,
                    NEXT_TID, tls, senders, reg_chan, qs, ordinals>>
  \/ \* 695-706: heap.pop(), head.take().unwrap(), the writes, refill_head
     /\ ltpc = "pop"
     /\ IF lt.heap = <<>>
          THEN /\ ltpc' = "try_recv"
               /\ UNCHANGED <<prods, lt>>
          ELSE LET qid == least[2]
                   e == lt.head[qid]
                   next == entry(qs[qid])
               IN IF e = 0
                    THEN /\ ltpc' = "panicked"
                         /\ lt' = [lt EXCEPT !.heap = rest]
                         /\ UNCHANGED prods
                    ELSE \E write_ok \in BOOLEAN :
                           IF write_ok
                             THEN /\ ltpc' = "try_recv"
                                  /\ prods' = after_pop(qs[qid])
                                  /\ lt' = [lt EXCEPT
                                       !.out = Append(@, <<e, qs[qid]>>),
                                       !.head[qid] = next,
                                       !.heap = IF next # 0
                                                  THEN Append(rest, <<next, qid>>)
                                                  ELSE rest,
                                       !.empty = IF next = 0 THEN Append(@, qid)
                                                 ELSE @]
                             ELSE /\ ltpc' = "exited"
                                  /\ lt' = [lt EXCEPT !.heap = rest, !.head[qid] = 0]
                                  /\ UNCHANGED prods
     /\ UNCHANGED <<qvars, cvars, svars, avars, fvars, callers, time_cache, dt,
                    NEXT_TID, tls, senders, reg_chan, qs, ordinals>>

(***************************************************************************)
(* The draining consumer of src/src/run_log.rs: LoggerThread::run visits   *)
(* the queues in the order of their registration.  Threads register as in  *)
(* main.rs (the get_mut of run_log.rs 47-59 is the same code); the entries *)
(* are not told apart.                                                     *)
(***************************************************************************)
\* LoggerHandle::push (run_log.rs 86-91) on a registered thread; while the
\* queue is full the call spins
LoggerHandle_push_to(t) ==
  /\ tls[t].inited
  /\ Len(prods.ring[t]) < capacity
  /\ prods' = [prods EXCEPT !.ring[t] = Append(@, 1)]
  /\ UNCHANGED <<qvars, cvars, svars, avars, rvars, fvars, callers, time_cache,
                 dt, lt>>

\* LoggerThread::run (run_log.rs 239-271), one step for every try_recv and
\* every pop; lt.popped is the ordinal of the queue the step popped from
LoggerThread_run_drain ==
  LET owner(n) == CHOOSE t \in Threads : tls[t].tid = n
  IN
  \/ \* 241-250: while let Ok(msg) = self.reg_rx.try_recv() { qs.push(st) }
     /\ ltpc = "try_recv"
     /\ IF try_recv(reg_chan, senders) = "Ok"
          THEN /\ qs' = Append(qs, Head(reg_chan))
               /\ reg_chan' = Tail(reg_chan)
               /\ lt' = [lt EXCEPT !.popped = 0]
               /\ UNCHANGED ltpc
          ELSE /\ ltpc' = "drain"
               /\ lt' = [lt EXCEPT !.i = 1, !.popped = 0]
               /\ UNCHANGED <<qs, reg_chan>>
     /\ UNCHANGED <<qvars, cvars, svars, avars, fvars, callers, time_cache, dt,
                    prods, NEXT_TID, tls, senders, ordinals>>
  \/ \* 253-261: for qs in qs.iter_mut() { while let Some(_) = qs.cons.pop() {} }
     /\ ltpc = "drain"
     /\ IF lt.i > Len(qs)
          THEN /\ ltpc' = "park"
               /\ lt' = [lt EXCEPT !.popped = 0]
               /\ UNCHANGED prods
          ELSE IF prods.ring[owner(qs[lt.i])] # <<>>
            THEN /\ prods' = [prods EXCEPT !.ring[owner(qs[lt.i])] = Tail(@)]
                 /\ lt' = [lt EXCEPT !.popped = qs[lt.i]]
                 /\ UNCHANGED ltpc
            ELSE /\ lt' = [lt EXCEPT !.i = @ + 1, !.popped = 0]
                 /\ UNCHANGED <<prods, ltpc>>
     /\ UNCHANGED <<qvars, cvars, svars, avars, fvars, callers, time_cache, dt,
                    NEXT_TID, tls, senders, reg_chan, qs, ordinals>>
  \/ \* 267: park_timeout(100 us), then the next round
     /\ ltpc = "park"
     /\ ltpc' = "try_recv"
     /\ UNCHANGED <<qvars, cvars, svars, avars, fvars, callers, yvars,
                    NEXT_TID, tls, senders, reg_chan, qs, ordinals>>

Init == QInit /\ CInit /\ SInit /\ tid = 0 /\ AIdle /\ RInit /\ FInit /\ HInit /\ YInit
Next == publish_args \/ run
Spec == Init /\ [][Next]_vars

\* the clock with the calibrating thread and a reading thread
ClockSpec ==
  Init /\ [][tick \/ init_start \/ init_finish \/ calibrate \/ save_param
               \/ tsc2ns]_vars

\* the console sink inside a consumer thread started with any tid
SinkInit == QInit /\ CInit /\ SInit /\ tid \in Tids /\ AIdle /\ RInit /\ FInit /\ HInit /\ YInit
SinkNext == run_message \/ run_no_data \/ cycle
SinkSpec == SinkInit /\ [][SinkNext]_vars
\* the consumer thread keeps running and the cycle counter advances
SinkLiveSpec ==
  SinkSpec /\ WF_vars(run_message \/ run_no_data) /\ WF_vars(cycle)

\* a pair of arguments through args2 and decode_fmt_args2
ArgsInit == QInit /\ CInit /\ SInit /\ tid = 0 /\ ADraw /\ RInit /\ FInit /\ HInit /\ YInit
ArgsNext == args2 \/ decode_fmt_args2
ArgsSpec == ArgsInit /\ [][ArgsNext]_vars
\* the same with a POD argument
PodInit ==
  /\ QInit /\ CInit /\ SInit /\ tid = 0 /\ RInit /\ FInit /\ HInit /\ YInit
  /\ a_in \in (PodInputs \X (PodInputs \cup ArgInputs))
               \cup (ArgInputs \X PodInputs)
  /\ a_bytes = <<>> /\ a_out = <<>> /\ apc = "input"
PodSpec == PodInit /\ [][ArgsNext]_vars

\* producer threads registering with the logger thread
RegSpec ==
  Init /\ [][\/ \E t \in Threads :
                   get_mut_fetch_add(t) \/ get_mut_send(t) \/ drop_LoggerHandle(t)
              \/ LoggerThread_run]_vars
\* the logger thread keeps running
RegLiveSpec == RegSpec /\ WF_vars(LoggerThread_run)

\* the fixed-slot ring with its producer and its consumer
FixedSpec == Init /\ [][LoggerHandle_push \/ Consumer_pop]_vars
\* the producer thread keeps running, whatever the consumer does
FixedLiveSpec == FixedSpec /\ WF_vars(LoggerHandle_push)

\* threads logging through one shared LoggerHandle, and the consumer
SharedSpec ==
  Init /\ [][\/ \E t \in 1..MaxCallers : publish_args_by(t)
              \/ (nPopped < MaxPops /\ run)]_vars

\* one TimeCache and the calls of refresh_dt on it
TimeSpec == Init /\ [][TimeCache_refresh_dt]_vars

\* threads logging through clones of one LoggerHandle, and its logger thread
MergeSpec ==
  Init /\ [][(\E t \in 1..MaxLoggers : hft_log(t))
               \/ LoggerThread_run_merge]_vars

\* threads registering and pushing without end, and the draining logger
\* thread, which is scheduled again and again
DrainLiveSpec ==
  /\ Init
  /\ [][\/ \E t \in Threads :
             get_mut_fetch_add(t) \/ get_mut_send(t) \/ LoggerHandle_push_to(t)
        \/ LoggerThread_run_drain]_vars
  /\ WF_vars(LoggerThread_run_drain)

(***************************************************************************)
(* Properties of the ring.  Messages are at most BLK_CNT / 2 blocks long   *)
(* (Sites), and the unwrapped indices of mono are the "monotone counters"  *)
(* the properties speak of.                                                *)
(***************************************************************************)
\* the producer holds reserved blocks that are not yet published
InFlight == ppc \in {"fill_header", "copy", "commit_size", "commit_written"}
\* front has returned Some and pop has not yet run
Holding == cpc \in {"record", "pop"}

\* C1: the messages handed to on_record are, in order, a prefix of the
\* committed messages: none twice, none skipped, none that was not
\* committed.
FifoExactlyOnce ==
  /\ Len(delivered) <= Len(committed)
  /\ \A i \in 1..Len(delivered) : delivered[i] = committed[i]

\* C2: every committed message is eventually handed to its decoder and
\* popped.  The consumer stops working only when front finds the ring
\* empty (read_idx = written_idx); with the producer idle it then stays so
\* for ever, so the property requires that in such a state every committed
\* message has been delivered and popped.
DrainedAllCommitted ==
  (ppc = "idle" /\ cpc = "idle" /\ read_idx = written_idx)
    => (nPopped = Len(committed) /\ delivered = committed)

\* C3: writing_idx - read_idx <= BLK_CNT on the monotone counters: no block
\* is reserved while it holds a message that is not yet popped.
NoOverwrite == mono.writing - mono.read <= BLK_CNT

\* C4: read_idx <= written_idx <= writing_idx on the monotone counters.
IndexOrder == mono.read <= mono.written /\ mono.written <= mono.writing

\* C5: try_alloc returned Some exactly when the free block count
\* BLK_CNT - (writing_idx - read_idx), with read_idx as try_alloc consulted
\* it (the cache on a hit, the fresh load on a miss), was at least
\* ceil((payload_len + 24) / 64) + rewind_pad.
SomeIffFree ==
  nPub > 0 =>
    LET blocks == div_ceil(alloc.len + MSG_HEADER_SIZE, BLOCK_SIZE)
        rewind_pad == IF blocks > BLK_CNT - alloc.pos
                        THEN BLK_CNT - alloc.pos ELSE 0
        free == BLK_CNT - (alloc.writing - alloc.consulted)
    IN alloc.some <=> free >= blocks + rewind_pad

\* C6: the blocks of an allocated message lie within the block array; the
\* message starts at block 0, behind a marker of size 0 at the block where
\* the write position was, exactly when it did not fit before the ring end,
\* and at the write position otherwise.
NoStraddle ==
  /\ ~oob
  /\ InFlight =>
       /\ p.hdr + p.blk_sz <= BLK_CNT
       /\ p.rewound <=> (p.entry + p.blk_sz > BLK_CNT)
       /\ p.rewound => (p.hdr = 0 /\ blk[p.entry].size = 0)
       /\ ~p.rewound => p.hdr = p.entry

\* C6, its case: a message that did not fit before the ring end is being
\* written at block 0 and the marker stands where the write position was.
RewoundAlloc ==
  /\ ppc = "copy"
  /\ p.rewound
  /\ p.entry # 0
  /\ p.hdr = 0
  /\ blk[p.entry].size = 0

\* C7: what front returns is a message: its size is at least
\* MSG_HEADER_SIZE, and after a skip over a size-0 block it is the message
\* at block 0, read_idx standing at a multiple of BLK_CNT.
FrontSkipsMarker ==
  cpc = "record" =>
    /\ c.sz >= MSG_HEADER_SIZE
    /\ c.skipped => (c.hdr = 0 /\ and_mask(read_idx) = 0)

\* C8: from the return of front to pop, the size, level, tsc, decoder and
\* payload the consumer reads are those the producer stored for the oldest
\* committed message that is not yet popped.
NoTornMessage ==
  Holding =>
    /\ pending # <<>>
    /\ read_msg(blk, c.hdr, c.sz) = Head(pending)
    /\ cpc = "pop" => last_read = Head(pending)

\* C9: publish_args returned false exactly when its try_alloc returned
\* None, and true exactly when try_alloc returned Some and the message is
\* committed and published (written_idx covers it); every call is either
\* committed or refused.
PublishResult ==
  (ppc = "idle" /\ nPub > 0) =>
    /\ last_ret = "false" <=> ~alloc.some
    /\ last_ret = "true" <=>
         /\ alloc.some
         /\ written_idx = writing_idx
         /\ committed # <<>>
         /\ committed[Len(committed)] = now_tsc - 1
    /\ nPub = Len(committed) + nDropped

\* C9, its case: a call has been refused after earlier calls were committed.
RefusedAfterCommits ==
  /\ ppc = "idle"
  /\ last_ret = "false"
  /\ ~alloc.some
  /\ nDropped > 0
  /\ committed # <<>>

(***************************************************************************)
(* Properties of the clock.                                                *)
(***************************************************************************)
\* C10: the base_tsc, base_ns and ns_per_tsc a completed tsc2ns used are
\* together one tuple handed to a save_param call, or the initial tuple.
SeqlockReadConsistent ==
  tsc2ns_ret.valid =>
    <<tsc2ns_ret.base_tsc, tsc2ns_ret.base_ns, tsc2ns_ret.ns_per_tsc>> \in commits

\* C11: the nanoseconds rendered for one producer's messages do not go
\* back: a tsc2ns call that returns after an earlier one returned, for a
\* stamp that is not older, returns a value that is not smaller.
RenderedNsMonotone ==
  [][(rpc = "rd_after" /\ rpc' = "idle" /\ tsc2ns_ret.valid)
       => tsc2ns_ret'.ns >= tsc2ns_ret.ns]_vars

\* C18: the slice handed to the decoder is the payload: it starts right
\* after the header, is size - MSG_HEADER_SIZE bytes long, and ends inside
\* the blocks reserved for the message and inside the ring.
PayloadSliceExact ==
  cpc = "pop" =>
    LET s == log_payload(c.hdr, c.sz)
        reserved_end == (c.hdr + div_ceil(c.sz, BLOCK_SIZE)) * BLOCK_SIZE
    IN  /\ s.from = c.hdr * BLOCK_SIZE + MSG_HEADER_SIZE
        /\ s.len = c.sz - MSG_HEADER_SIZE
        /\ s.from + s.len <= reserved_end
        /\ s.from + s.len <= BLK_CNT * BLOCK_SIZE

(***************************************************************************)
(* Properties of the console sink.                                         *)
(***************************************************************************)
\* C12: while no write or flush has failed, the bytes on the standard
\* output are exactly the rendered lines that have left the batch, in
\* render order: the output followed by the batch is the concatenation of
\* all rendered lines, and nothing else was emitted.
OutputIsFlushedLines ==
  io_errors = 0 => stdout \o batch = rendered

\* C13: when on_record returns Ok, the batch holds fewer than flush_bytes
\* bytes and the last flush is less than flush_interval_cycles ago.
BatchFreshAfterRecord ==
  (last_call.op = "on_record" /\ last_call.ret = "Ok") =>
    /\ last_call.post_len < FlushBytes
    /\ last_call.post_age < FlushInterval

\* C14: on_idle flushes exactly when the batch is not empty and the last
\* flush is at least flush_interval_cycles ago, and with an empty batch it
\* changes nothing of the sink and writes nothing.
OnIdleFlushesIffDue ==
  last_call.op = "on_idle" =>
    /\ last_call.flushed <=>
         (~last_call.pre_empty /\ last_call.pre_age >= FlushInterval)
    /\ last_call.pre_empty => ~last_call.changed
\* on_idle found a batch that was due and flushed it
IdleFlushed ==
  /\ last_call.op = "on_idle" /\ last_call.flushed
  /\ ~last_call.pre_empty /\ last_call.pre_age >= FlushInterval

\* C15: while the consumer thread runs and the cycle counter advances, a
\* line in the batch is eventually written out, whether or not another
\* message arrives.
LinesEventuallyWritten ==
  (batch # "") ~> (batch = "" \/ spc = "panicked")
\* the idle path wrote out everything that was rendered
IdleFlushDrained ==
  /\ last_call.op = "on_idle" /\ last_call.ret = "Ok" /\ last_call.changed
  /\ batch = "" /\ rendered # "" /\ spc = "loop"

\* C16: after a failed write or flush the batch is empty and the consumer
\* thread is still in its loop.
FailedFlushDropsBatch ==
  io_errors > 0 => (batch = "" /\ spc = "loop")

\* C17: on_record does not abort on a line that does not fit the scratch
\* buffer.
LongLineDoesNotAbort ==
  ~(last_call.op = "on_record" /\ last_call.ret = "buff too small")

\* C19: a rendered line is '[', the date-time, the milliseconds and
\* microseconds, ' ', the thread token, ' ', the level token, ' ', the
\* location module::file#line, '] ', the body and a newline.  A level
\* string that ends in a space counts as the token and its separator.
RenderedLineFormat ==
  (last_call.op = "on_record" /\ last_call.ret # "buff too small") =>
    LET site == last_call.site
        sub_us == last_call.time[2] \div 1000
        level_str == LEVEL_STRS[site.level + 1]
        level_sep ==
          IF lut_bytes(level_str, Len(level_str) - 1, 1) = " " THEN "" ELSE " "
    IN  scratch =
          "[" \o refresh_dt(last_call.time[1])
              \o lut_msus(sub_us \div 1000, sub_us % 1000)
              \o " " \o tid_lut(tid) \o " " \o level_str \o level_sep
              \o site.module_path \o "::" \o file_name(site.file) \o "#"
              \o display(site.line) \o "] " \o site.body \o "\n"

PodRoundTrip ==
  apc = "decoded" =>
    LET stored == ARGS_OFFSET + Len(carrier_bytes(into_arg(a_in[1]), 0)) IN
    /\ Len(a_out) = 2
    /\ a_out[1].next = stored
    /\ stored % 8 = 0
    /\ \A i \in 1..2 :
         a_in[i].ty = "pod" =>
           /\ a_bytes[i] = a_in[i].size + 8
           /\ a_bytes[i] \notin {0, 1, 2}
           /\ a_out[i].ty = "user-pod"
           /\ a_out[i].bits = a_in[i].data
           /\ a_out[i].decode_fn = into_arg(a_in[i]).decode_fn

\* C22: the ordinals taken from NEXT_TID increase from one fetch_add to the
\* next, and no two threads, registered or between fetch_add and send, hold
\* the same ordinal; no ordinal is registered twice.
OrdinalsUniqueIncreasing ==
  /\ \A i, j \in 1..Len(ordinals) : i < j => ordinals[i] < ordinals[j]
  /\ \A s, t \in Threads :
       (s # t /\ tls[s].tid # 0 /\ tls[t].tid # 0) => tls[s].tid # tls[t].tid
  /\ LET sent == reg_chan \o qs
     IN  \A i, j \in 1..Len(sent) : i # j => sent[i] # sent[j]

\* every thread has taken its ordinal, and two of them were between
\* fetch_add and send at the same time
ConcurrentRegistrations ==
  /\ Len(ordinals) = MaxThreads
  /\ Cardinality({t \in Threads : tls[t].pc = "send"}) >= 2

\* C25: once every sender of the registration channel is dropped, the logger
\* thread leaves the loop of run.
ClosedChannelExits == (senders = {}) ~> (ltpc = "exited")

\* C27: pop returns None only when everything pushed is popped, push_write
\* is refused only with capacity elements unconsumed and a refusal leaves
\* the queue as it was, the popped values are the pushed ones in push order,
\* each once, and 0 <= tail - head <= capacity.
FixedRingFifo ==
  /\ [](LET n == Len(fhist.pushed) - Len(fhist.popped) IN
        /\ fhist.none.seen => fhist.none.unpopped = 0
        /\ fhist.err.seen => fhist.err.unconsumed = capacity
        /\ Len(fhist.popped) <= Len(fhist.pushed)
        /\ fhist.popped = SubSeq(fhist.pushed, 1, Len(fhist.popped))
        /\ \A i, j \in 1..Len(fhist.pushed) :
             i < j => fhist.pushed[i] < fhist.pushed[j]
        /\ n >= 0 /\ n <= capacity
        /\ usize_wrapping_sub(shared.tail, shared.head) = n)
  /\ [][(producer.pc = "check" /\ producer'.pc # "write"
           /\ consumer' = consumer)
          => UNCHANGED <<shared, buffer, fhist.pushed>>]_vars

\* the tail has wrapped, a pop found the ring empty and a push_write found
\* it full
FixedRingWrapped ==
  /\ Len(fhist.pushed) > 2 * capacity
  /\ fhist.none.seen /\ fhist.err.seen
  /\ Len(fhist.popped) >= capacity

\* C26: a call of push or push_write that the producer thread started
\* returns after steps of the producer thread alone, whether or not the
\* consumer runs.
ProducerCallReturns == (producer.pc # "idle") ~> (producer.pc = "idle")

\* C23: the blocks two threads hold between try_alloc and commit on the same
\* ring are different blocks: no block is reserved by two producers at once.
OneProducerPerRing ==
  \A s, t \in 1..MaxCallers :
    s # t => callers[s].held \cap callers[t].held = {}

\* C24: a try_alloc that finds the ring empty (read_idx = writing_idx)
\* succeeds, at every position of writing_idx, for every call site (each
\* needs at most BLK_CNT / 2 blocks).
EmptyRingAllocates ==
  [][(ppc = "idle" /\ nPub' = nPub + 1 /\ read_idx = writing_idx)
       => alloc'.some]_vars

\* C28: PARAM_SEQ is even whenever no save_param is in progress, and a step
\* of save_param that changes base_tsc, base_ns or ns_per_tsc is taken
\* while PARAM_SEQ is odd.
SeqlockWriteProtocol ==
  /\ [](wpc \notin {"sp_err", "sp_odd", "sp_tsc", "sp_ns", "sp_nspt", "sp_even"}
          => PARAM_SEQ % 2 = 0)
  /\ [][(/\ wpc \in {"sp_err", "sp_odd", "sp_tsc", "sp_ns", "sp_nspt", "sp_even"}
         /\ <<BASE_TSC, BASE_NS, NS_PER_TSC>>' # <<BASE_TSC, BASE_NS, NS_PER_TSC>>)
        => PARAM_SEQ % 2 = 1]_vars

\* C29: the end of a round in which a message was rendered (no_data = 0)
\* does not call on_idle, and on_idle is called only with IdleLoops rounds
\* without a message behind it.
IdleOnlyAfterIdleRounds ==
  [][(spc = "loop" /\ no_data = 0 /\ no_data' = 1)
       => (last_call'.op # "on_idle" /\ num_loop' = 0)]_vars

\* C30: a calibrate that runs with a positive ns_per_tsc in force hands a
\* strictly positive new_ns_per_tsc to save_param, whatever the system clock
\* did since the last calibration.
NsPerTscPositive ==
  (/\ PARAM_SEQ >= 2 /\ NS_PER_TSC[1] > 0
   /\ wpc \in {"sp_err", "sp_odd", "sp_tsc", "sp_ns", "sp_nspt", "sp_even"})
    => sp.new_ns_per_tsc[1] > 0

\* C31: when a save_param completes, base_ns_err holds the error of that
\* commit, the model nanoseconds minus the system nanoseconds it was handed.
BaseNsErrIsLastError ==
  [][wpc = "sp_even" => BASE_NS_ERR' = sp.base_ns - sp.sys_ns]_vars

\* C35: the decision of try_alloc is the one the unwrapped counters give,
\* Some exactly when the read index it consulted is at least
\* writing_idx + needed - BLK_CNT, also once the indices have passed the
\* sign bit or wrapped; and past the sign bit no reserved block holds a
\* message that is not yet popped.
WrappedDecisionExact ==
  nPub > 0 =>
    LET min_read_idx == alloc.writing + needed_of(alloc.len, alloc.pos) - BLK_CNT
    IN  /\ alloc.some <=> alloc.consulted >= min_read_idx
        /\ mono.writing >= IdxHalf => mono.writing - mono.read <= BLK_CNT

\* C36: read_idx_cache is never ahead of read_idx, and a try_alloc that
\* succeeded on the cache alone reserved only blocks the consumer had
\* released: the monotone writing_idx after it is at most read_idx + BLK_CNT.
CacheHitReservesFree ==
  /\ mono.cache <= mono.read
  /\ (nPub > 0 /\ alloc.hit /\ alloc.some)
       => alloc.writing + needed_of(alloc.len, alloc.pos) <= mono.read + BLK_CNT


\* C37: a try_alloc that returns None leaves writing_idx, written_idx,
\* read_idx and every block of the ring as they were.
NoneLeavesRingAlone ==
  [][(ppc = "idle" /\ nPub' = nPub + 1 /\ ~alloc'.some)
       => UNCHANGED <<writing_idx, written_idx, read_idx, blk>>]_vars
\* a try_alloc has returned None after reloading read_idx into the cache,
\* with a message reserved earlier still unread in the ring
NoneAfterReload ==
  /\ ppc = "idle" /\ last_ret = "false" /\ nPub > 0
  /\ ~alloc.some /\ ~alloc.hit
  /\ mono.cache = mono.read /\ mono.writing > mono.read


\* C38: a calibrate that returns early (cycle count below next_calibrate_tsc)
\* changes none of the clock parameters, and the save_param of a calibrate
\* that commits sets next_calibrate_tsc later than the calibration's tsc.
CalibrateFrameAndDeadline ==
  [][/\ (wpc = "idle" /\ nCal' = nCal + 1 /\ tsc_now < NEXT_CALIBRATE_TSC)
          => UNCHANGED <<BASE_TSC, BASE_NS, NS_PER_TSC, BASE_NS_ERR,
                         NEXT_CALIBRATE_TSC, PARAM_SEQ>>
     /\ (wpc = "sp_err" /\ wpc' = "sp_odd" /\ PARAM_SEQ >= 2)
          => NEXT_CALIBRATE_TSC' > sp.base_tsc]_vars


\* C34: the 14 bytes refresh_dt leaves for the second value s are the
\* 'MM-DD HH:MM:SS' rendering of s alone, whether the call hit the cache or
\* recomputed and whatever the seconds of the earlier calls were.
TimeCacheTransparent ==
  dt.n > 0 =>
    LET t == split_utc(dt.curr_sec)
        dd(v) == ascii_digit(v \div 10) \o ascii_digit(v % 10)
    IN  dt.buff = dd(t[1]) \o "-" \o dd(t[2]) \o " " \o dd(t[3]) \o ":"
                    \o dd(t[4]) \o ":" \o dd(t[5])


\* C33: the merging consumer writes the entries of all producers in
\* non-decreasing tsc order, and those of one producer in their push order.
MergeKeepsTscOrder ==
  /\ \A i, j \in 1..Len(lt.out) : i < j => lt.out[i][1] <= lt.out[j][1]
  /\ \A t \in Threads :
       LET mine == SelectSeq(lt.out, LAMBDA x : x[2] = tls[t].tid)
       IN  /\ Len(mine) <= Len(prods.pushed[t])
           /\ \A k \in 1..Len(mine) : mine[k][1] = prods.pushed[t][k]

\* C39: while run goes on, every queue id is exactly once in the heap or in
\* the empty list, in the heap exactly when its head is Some, and every
\* entry popped from a queue is the head of its QState or was written.
HeapEmptyPartition ==
  /\ ltpc \notin {"exited", "panicked"} =>
       \A qid \in 1..Len(qs) :
         LET in_heap == {k \in 1..Len(lt.heap) : lt.heap[k][2] = qid}
             in_empty == {k \in 1..Len(lt.empty) : lt.empty[k] = qid}
         IN  /\ Cardinality(in_heap) + Cardinality(in_empty) = 1
             /\ in_heap # {} <=> lt.head[qid] # 0
             /\ \A k \in in_heap : lt.heap[k][1] = lt.head[qid]
  /\ \A t \in Threads :
       LET mine == SelectSeq(lt.out, LAMBDA x : x[2] = tls[t].tid)
           written == [k \in 1..Len(mine) |-> mine[k][1]]
           held == {qid \in 1..Len(qs) : qs[qid] = tls[t].tid /\ lt.head[qid] # 0}
           head == IF held = {} THEN <<>> ELSE <<lt.head[CHOOSE qid \in held : TRUE]>>
       IN  prods.pushed[t] = written \o head \o prods.ring[t]


=============================================================================
